---------------------------- MODULE Spec2Model ----------------------------
(***************************************************************************)
(* A model of ccgo (missdeer/ccgo): the PTY supervisor (reader and writer  *)
(* threads of PtyHandle), the agent adapter (GenericAgent), the session    *)
(* dispatcher and the log providers (Codex JSONL, OpenCode and Gemini      *)
(* whole-file JSON).  Each subsystem has its own next-state relation and   *)
(* specification over the shared variables; the variables of the other     *)
(* subsystems stay at their initial values.                                *)
(***************************************************************************)
EXTENDS Integers, Sequences, FiniteSets, TLC

(***************************************************************************)
(* Generic helpers on sequences                                            *)
(***************************************************************************)
Min(a, b) == IF a <= b THEN a ELSE b

Max(a, b) == IF a >= b THEN a ELSE b

\* s[from..to] (1-based, inclusive), empty when from > to
Slice(s, from, to) == SubSeq(s, from, to)

\* the last n elements of s (all of s when n >= Len(s))
LastN(s, n) == SubSeq(s, Len(s) - Min(n, Len(s)) + 1, Len(s))

\* all sequences over S of length lo..hi
SeqsOf(S, lo, hi) == UNION {[1..n -> S] : n \in lo..hi}

RECURSIVE Concat(_)
Concat(ss) == IF ss = <<>> THEN <<>> ELSE Head(ss) \o Concat(Tail(ss))

\* s without its element at index i
RemoveAt(s, i) == SubSeq(s, 1, i - 1) \o SubSeq(s, i + 1, Len(s))

IsPrefix(p, s) == Len(p) <= Len(s) /\ SubSeq(s, 1, Len(p)) = p

(***************************************************************************)
(* Bounds of the model                                                     *)
(***************************************************************************)
\* largest replay capacity (buffer_limit) tried
MaxCap == 3
\* total number of bytes the child emits
MaxOutput == 5
\* largest chunk one read returns in the model (the code reads up to 4096)
MaxChunk == 4
\* number of write/resize/shutdown calls made on one PtyHandle
MaxCalls == 4
\* number of pieces of output the child emits before the text is examined
MaxPieces == 4
\* number of requests submitted to one AgentSession
MaxReqs == 4
\* number of changes (create, append, touch) made to the session files
MaxLogOps == 4
\* length of the rest of a path after its drive part
MaxTail == 3
\* number of frames received on one WebSocket
MaxFrames == 2
\* number of chunks the reader thread reads
MaxChunks == 3
\* length of a chunk
MaxChunkLen == 2
\* the capacity of the broadcast channel, scaled down
ChannelCap == 2
\* number of HTTP requests
MaxHttp == 3
\* number of writes to the PTY between two dispatches
MaxWrites == 3
\* number of start() calls
MaxStarts == 3
\* max_stuck_duration, in polls of the dispatch loop
max_stuck_duration == 1
\* length of a messages array
MaxMsgs == 3

\* capacity of the PTY command channel (256 in the code)
WriteChannelCap == 2

\* polls of try_wait before shutdown's timeout fires (500 ms / 50 ms in the code)
MaxShutdownPolls == 1

\* create calls made on the manager
MaxCreates == 3

\* byte values the child emits / callers write
Bytes == {0, 1}

VARIABLES
    \* ---- PtyHandle, reader side (pty/mod.rs 123-161) ----
    buffer_limit,   \* replay capacity handed to spawn_command
    buffer,         \* PtyHandle.buffer: the replay buffer
    rd_pc,          \* reader thread: "unspawned" | "read" | "store" | "exited"
    rd_data,        \* the chunk read and broadcast but not yet stored
    output,         \* history: every byte the reader has read so far
    \* ---- PtyHandle, writer side (pty/mod.rs 86-117, 172-255) ----
    write_q,        \* the mpsc command channel (write_tx / write_rx)
    wr_pc,          \* writer thread: "recv" | "writing" | "exited"
    wr_cur,         \* the Write command being written: [seq, data, pos]
    child_in,       \* bytes handed to the master writer so far
    pty_size,       \* <<cols, rows>> of the master
    pty_broken,     \* the master writer fails (child side closed)
    shutdown_flag,  \* PtyHandle.shutdown (AtomicBool)
    child_killed,   \* kill() was called on the child
    sd_polls,       \* per caller inside shutdown(): sleeps of 50 ms taken so far
    call_pc,        \* per caller: "idle" | "awaiting"
    call_res,       \* per caller: result of its last call
    enq_log,        \* history: every Write enqueued, in channel order
    \* ---- GenericAgent and the text it is asked about (agent/mod.rs) ----
    a_pc,           \* "new" | "emit" | "checked" | "injected"
    a_cfg,          \* the AgentConfig the GenericAgent was built from
    a_text,         \* the text collected from the child so far
    a_n,            \* number of pieces of output in a_text
    a_id,           \* message_id of the call
    a_complete,     \* is_reply_complete(a_text, a_id)
    a_reply,        \* strip_done_marker(a_text, a_id)
    a_reply_complete,   \* is_reply_complete(a_reply, a_id)
    a_marked_complete,  \* is_reply_complete(a_reply + done-marker line, a_id)
    a_message,      \* message of inject_message_sentinel
    a_injected,     \* inject_message_sentinel(a_message, a_id)
    \* ---- AgentSession (section 4.6 of the specification) ----
    s_state,        \* Stopped | Starting | Ready | Busy | Stuck | Failed
    s_busy,         \* the request id of Busy(request_id), 0 otherwise
    s_queue,        \* the requests waiting, oldest first
    s_req,          \* per request: new | queued | busy | reply | <error>
    s_pty,          \* the session's PTY: "none" | "live"
    s_manager,      \* the PtyManager indexes a handle under the agent's name
    s_wrote,        \* what the session wrote to its PTY since the last dispatch
    s_starts,       \* the number of start() calls made
    s_handle,       \* the number of the handle PtyManager::create made last
    s_signal,       \* a completion of the request in flight can be matched
    s_elapsed,      \* polls without completion since the session became Busy
    \* ---- log providers (log_provider/*.rs) ----
    l_provider,     \* the provider constructed: none | codex | opencode | gemini
    l_files,        \* the session files of the watched directory
    l_clock,        \* the time of the last change to the directory
    l_locked,       \* GeminiLogProvider.locked_session: <<>> or <<record>>
    l_session,      \* the LockedSession the caller holds: <<>> or <<record>>
    l_at_lock,      \* number of messages of each file when the lock was taken
    l_current_offset, \* the provider's current_offset
    l_reply,        \* the last get_latest_reply: <<>> or <<[since, entry, ...]>>
    l_lock_ret,     \* what the last lock_session returned: unset | Some | None
    \* ---- PathMapper (log_provider/path_mapper.rs) ----
    pm_pc, \* idle | picked | done
    pm_path, \* the input path
    pm_dir, \* the first conversion applied: wsl | windows
    pm_mid, \* the result of the first conversion
    pm_out, \* the result of converting back
    \* ---- WebSocket receive path (web/websocket.rs) ----
    ws_pc, \* detached | open | closed
    ws_input_enabled, \* config.web.input_enabled
    ws_frames, \* the frames received so far
    ws_chan, \* the PtyMessages queued for the input task
    ws_pty, \* the session has a PTY (session.pty is Some)
    ws_handled, \* the PtyMessages the input task took, each with whether a PTY got it
    \* ---- PTY output fan-out and attaching viewers (pty/mod.rs, web/websocket.rs) ----
    f_pc, \* the reader thread: unspawned | read | publish | store
    f_limit, \* buffer_limit
    f_cur, \* the chunk just read
    f_sent, \* the chunks sent on the broadcast channel, oldest first
    f_buffer, \* the replay buffer
    f_view, \* per viewer: pc, snapshot, receiver cursor, chunks received
    \* ---- HTTP control endpoints (web/handlers.rs) ----
    h_up, \* the server is up
    h_map, \* the agent names of the session map
    h_state, \* per agent name of the map, the state of its session
    h_calls, \* the session operations invoked, oldest first
    h_resp, \* the responses returned, oldest first
    \* ---- whole-file JSON providers on one session file (opencode.rs, gemini.rs) ----
    j_pc, \* unset | set
    j_msgs, \* the messages array of the session file
    j_out, \* the last poll: provider, since_offset and the reply, if any
    \* ---- get_history on one session file (codex.rs, opencode.rs, gemini.rs) ----
    hi_pc, \* unset | set
    hi_file, \* the latest session file: <<>> (none) or <<its elements>>
    hi_out, \* the last get_history: provider, count, whether the read succeeded, the entries
    \* ---- PtyManager (pty/mod.rs) ----
    mg_handles, \* PtyManager.handles: the entries [name, id] of the map
    mg_h, \* per handle id: st (none | live | dropped), held (an Arc outside the manager), shutdowns, killed
    mg_next, \* the id of the handle spawned last
    mg_calls, \* number of create calls made
    mg_sa, \* shutdown_all: pc (idle | running | returned), todo (the drained handles), seen
    mg_last, \* the last create: name and the handle returned, if any
    \* ---- the tasks of one WebSocket connection (web/websocket.rs) ----
    wt_sock, \* none | open | closed (Close frame or end of stream) | broken (sends fail)
    wt_handler, \* handle_socket: none | select | returned
    wt_recv, \* the receive task: none | running | done
    wt_input, \* the input task: none | running | done
    wt_send, \* the output-relay task: none | running | done
    wt_inq, \* messages waiting in the input channel
    wt_out, \* chunks waiting in the broadcast receiver of the relay task
    wt_pty, \* live | closed (every broadcast sender is gone)
    wt_made, \* chunks the PTY has produced since the tasks were spawned
    wt_relayed \* chunks sent to the browser

ptyReaderVars == <<buffer_limit, buffer, rd_pc, rd_data, output>>

ptyWriterVars == <<write_q, wr_pc, wr_cur, child_in, pty_size, pty_broken,
                   shutdown_flag, child_killed, sd_polls, call_pc, call_res,
                   enq_log>>

adapterVars == <<a_pc, a_cfg, a_text, a_n, a_id, a_complete, a_reply,
                 a_reply_complete, a_marked_complete, a_message, a_injected>>

sessionVars == <<s_state, s_busy, s_queue, s_req, s_pty, s_manager, s_wrote,
                 s_starts, s_handle, s_signal, s_elapsed>>

logVars == <<l_provider, l_files, l_clock, l_locked, l_session, l_at_lock,
             l_current_offset, l_reply, l_lock_ret>>

pathVars == <<pm_pc, pm_path, pm_dir, pm_mid, pm_out>>

wsVars == <<ws_pc, ws_input_enabled, ws_frames, ws_chan, ws_pty, ws_handled>>

fanVars == <<f_pc, f_limit, f_cur, f_sent, f_buffer, f_view>>

httpVars == <<h_up, h_map, h_state, h_calls, h_resp>>

jsonVars == <<j_pc, j_msgs, j_out>>

histVars == <<hi_pc, hi_file, hi_out>>

mgrVars == <<mg_handles, mg_h, mg_next, mg_calls, mg_sa, mg_last>>

taskVars == <<wt_sock, wt_handler, wt_recv, wt_input, wt_send, wt_inq, wt_out, wt_pty, wt_made, wt_relayed>>

vars == <<ptyReaderVars, ptyWriterVars, adapterVars, sessionVars, logVars,
          pathVars, wsVars, fanVars, httpVars, jsonVars, histVars, mgrVars,
          taskVars>>

\* what the actions of one subsystem leave alone
notReader == <<ptyWriterVars, adapterVars, sessionVars, logVars, pathVars,
               wsVars, fanVars, httpVars, jsonVars, histVars, mgrVars,
               taskVars>>

notWriter == <<ptyReaderVars, adapterVars, sessionVars, logVars, pathVars,
               wsVars, fanVars, httpVars, jsonVars, histVars, mgrVars,
               taskVars>>

notAdapter == <<ptyReaderVars, ptyWriterVars, sessionVars, logVars, pathVars,
                wsVars, fanVars, httpVars, jsonVars, histVars, mgrVars,
                taskVars>>

notSession == <<ptyReaderVars, ptyWriterVars, adapterVars, logVars, pathVars,
                wsVars, fanVars, httpVars, jsonVars, histVars, mgrVars,
                taskVars>>

notLog == <<ptyReaderVars, ptyWriterVars, adapterVars, sessionVars, pathVars,
            wsVars, fanVars, httpVars, jsonVars, histVars, mgrVars,
            taskVars>>

notPath == <<ptyReaderVars, ptyWriterVars, adapterVars, sessionVars, logVars,
             wsVars, fanVars, httpVars, jsonVars, histVars, mgrVars,
             taskVars>>

notWs == <<ptyReaderVars, ptyWriterVars, adapterVars, sessionVars, logVars,
           pathVars, fanVars, httpVars, jsonVars, histVars, mgrVars,
           taskVars>>

notFan == <<ptyReaderVars, ptyWriterVars, adapterVars, sessionVars, logVars,
            pathVars, wsVars, httpVars, jsonVars, histVars, mgrVars,
            taskVars>>

notHttp == <<ptyReaderVars, ptyWriterVars, adapterVars, sessionVars, logVars,
             pathVars, wsVars, fanVars, jsonVars, histVars, mgrVars,
             taskVars>>

notJson == <<ptyReaderVars, ptyWriterVars, adapterVars, sessionVars, logVars,
             pathVars, wsVars, fanVars, httpVars, histVars, mgrVars,
             taskVars>>

notHist == <<ptyReaderVars, ptyWriterVars, adapterVars, sessionVars, logVars,
             pathVars, wsVars, fanVars, httpVars, jsonVars, mgrVars,
             taskVars>>

notMgr == <<ptyReaderVars, ptyWriterVars, adapterVars, sessionVars, logVars,
            pathVars, wsVars, fanVars, httpVars, jsonVars, histVars,
            taskVars>>

notTask == <<ptyReaderVars, ptyWriterVars, adapterVars, sessionVars, logVars,
             pathVars, wsVars, fanVars, httpVars, jsonVars, histVars,
             mgrVars>>

(***************************************************************************)
(* PtyHandle: the reader thread and the replay buffer                      *)
(***************************************************************************)
\* a plausible slip: a chunk at least as long as the limit keeps its head
AppendReplayKeepHead(buf, data, limit) ==
    IF Len(data) >= limit
    THEN SubSeq(data, 1, limit)
    ELSE LET new_total == Len(buf) + Len(data)
             to_remove == IF new_total > limit THEN new_total - limit ELSE 0
         IN  SubSeq(buf, to_remove + 1, Len(buf)) \o data

\* the buffer update of the reader thread, for buffer_limit > 0
AppendReplay(buf, data, limit) ==
    IF Len(data) >= limit
    THEN \* buf.clear(); extend_from_slice(&data[len - limit ..])
         SubSeq(data, Len(data) - limit + 1, Len(data))
    ELSE LET new_total == Len(buf) + Len(data)
             to_remove == IF new_total > limit THEN new_total - limit ELSE 0
         IN  \* split_to(to_remove) drops the first to_remove bytes
             SubSeq(buf, to_remove + 1, Len(buf)) \o data

\* get_buffer(): a copy of the replay buffer, taken under its mutex
get_buffer == buffer

\* PtyHandle::spawn_command(.., buffer_limit): the replay buffer is created
\* empty and the reader thread starts
SpawnCommand(limit) ==
    /\ rd_pc = "unspawned"
    /\ buffer_limit' = limit
    /\ buffer' = <<>>
    /\ rd_pc' = "read"
    /\ UNCHANGED <<rd_data, output>>
    /\ UNCHANGED notReader

\* reader.read(&mut buf) returned Ok(n), n > 0: copy and broadcast the chunk
ReaderRead(data) ==
    /\ rd_pc = "read"
    /\ Len(output) + Len(data) <= MaxOutput
    /\ rd_data' = data
    /\ output' = output \o data
    /\ rd_pc' = "store"
    /\ UNCHANGED <<buffer_limit, buffer>>
    /\ UNCHANGED notReader

\* the chunk is stored in the replay buffer under blocking_lock
ReaderStore ==
    /\ rd_pc = "store"
    /\ buffer' = IF buffer_limit > 0
                 THEN AppendReplay(buffer, rd_data, buffer_limit)
                 ELSE buffer
    /\ rd_data' = <<>>
    /\ rd_pc' = "read"
    /\ UNCHANGED <<buffer_limit, output>>
    /\ UNCHANGED notReader

\* Ok(0) (EOF), Err(_), or the shutdown flag seen at the top of the loop
ReaderExit ==
    /\ rd_pc = "read"
    /\ rd_pc' = "exited"
    /\ UNCHANGED <<buffer_limit, buffer, rd_data, output>>
    /\ UNCHANGED notReader

InitReader ==
    /\ buffer_limit = 0
    /\ buffer = <<>>
    /\ rd_pc = "unspawned"
    /\ rd_data = <<>>
    /\ output = <<>>

NextReader ==
    \/ \E limit \in 0..MaxCap : SpawnCommand(limit)
    \/ \E data \in SeqsOf(Bytes, 1, MaxChunk) : ReaderRead(data)
    \/ ReaderStore
    \/ ReaderExit

(***************************************************************************)
(* PtyHandle: write / resize / shutdown and the writer thread              *)
(***************************************************************************)
Callers == {"c1", "c2", "c3", "c4"}

\* what callers write
WriteData == {<<0>>, <<1, 1>>, <<0, 1, 0>>}

\* sizes callers ask for
Sizes == {<<80, 24>>, <<120, 40>>}

\* a plausible slip: the channel hands out the newest command first
ChanRecvIndexNewest(q) == Len(q)

\* blocking_recv takes the oldest command of the channel
ChanRecvIndex(q) == 1

\* number of commands sent so far plus the Shutdown sends still pending
CallsMade == Len(enq_log) + Cardinality({c \in Callers : call_pc[c] = "sd_send"})

\* PtyHandle::write up to the await of the response: the command is sent
WriteSend(c, d) ==
    /\ call_pc[c] = "idle"
    /\ CallsMade < MaxCalls
    /\ IF wr_pc = "exited"
       THEN \* the receiver is gone: send fails, "PTY channel closed"
            /\ call_res' = [call_res EXCEPT ![c] = "channel_closed"]
            /\ enq_log' = Append(enq_log, [kind |-> "Write", data |-> d, st |-> "refused", sent |-> 0])
            /\ UNCHANGED <<write_q, call_pc>>
       ELSE \* send().await returns once the channel has room
            /\ Len(write_q) < WriteChannelCap
            /\ write_q' = Append(write_q,
                   [kind |-> "Write", data |-> d, from |-> c, seq |-> Len(enq_log) + 1,
                    cols |-> 0, rows |-> 0])
            /\ enq_log' = Append(enq_log, [kind |-> "Write", data |-> d, st |-> "queued", sent |-> 0])
            /\ call_pc' = [call_pc EXCEPT ![c] = "awaiting"]
            /\ call_res' = [call_res EXCEPT ![c] = "pending"]
    /\ UNCHANGED <<wr_pc, wr_cur, child_in, pty_size, pty_broken, shutdown_flag>>
    /\ UNCHANGED <<child_killed, sd_polls>>
    /\ UNCHANGED notWriter

\* PtyHandle::resize up to the await of the response
ResizeSend(c, sz) ==
    /\ call_pc[c] = "idle"
    /\ CallsMade < MaxCalls
    /\ IF wr_pc = "exited"
       THEN /\ call_res' = [call_res EXCEPT ![c] = "channel_closed"]
            /\ enq_log' = Append(enq_log, [kind |-> "Resize", data |-> <<>>, st |-> "refused", sent |-> 0])
            /\ UNCHANGED <<write_q, call_pc>>
       ELSE /\ Len(write_q) < WriteChannelCap
            /\ write_q' = Append(write_q,
                   [kind |-> "Resize", data |-> <<>>, from |-> c, seq |-> Len(enq_log) + 1,
                    cols |-> sz[1], rows |-> sz[2]])
            /\ enq_log' = Append(enq_log, [kind |-> "Resize", data |-> <<>>, st |-> "queued", sent |-> 0])
            /\ call_pc' = [call_pc EXCEPT ![c] = "awaiting"]
            /\ call_res' = [call_res EXCEPT ![c] = "pending"]
    /\ UNCHANGED <<wr_pc, wr_cur, child_in, pty_size, pty_broken, shutdown_flag>>
    /\ UNCHANGED <<child_killed, sd_polls>>
    /\ UNCHANGED notWriter

\* PtyHandle::shutdown, first statement: the flag is stored
ShutdownCall(c) ==
    /\ call_pc[c] = "idle"
    /\ CallsMade < MaxCalls
    /\ shutdown_flag' = TRUE
    /\ call_pc' = [call_pc EXCEPT ![c] = "sd_send"]
    /\ call_res' = [call_res EXCEPT ![c] = "pending"]
    /\ UNCHANGED <<write_q, wr_pc, wr_cur, child_in, pty_size, pty_broken,
                   child_killed, sd_polls, enq_log>>
    /\ UNCHANGED notWriter

\* write_tx.send(PtyCommand::Shutdown).await returns once the channel has
\* room for the command
ShutdownSendHasRoom(q) == Len(q) < WriteChannelCap

\* let _ = self.write_tx.send(PtyCommand::Shutdown).await: an error (the
\* receiver is gone) is ignored, no response is awaited
ShutdownSend(c) ==
    /\ call_pc[c] = "sd_send"
    /\ IF wr_pc = "exited"
       THEN /\ enq_log' = Append(enq_log, [kind |-> "Shutdown", data |-> <<>>,
                                           st |-> "refused", sent |-> 0])
            /\ UNCHANGED write_q
       ELSE /\ ShutdownSendHasRoom(write_q)
            /\ write_q' = Append(write_q,
                   [kind |-> "Shutdown", data |-> <<>>, from |-> c,
                    seq |-> Len(enq_log) + 1, cols |-> 0, rows |-> 0])
            /\ enq_log' = Append(enq_log, [kind |-> "Shutdown", data |-> <<>>,
                                           st |-> "queued", sent |-> 0])
    /\ call_pc' = [call_pc EXCEPT ![c] = "sd_kill"]
    /\ UNCHANGED <<wr_pc, wr_cur, child_in, pty_size, pty_broken, shutdown_flag,
                   child_killed, sd_polls, call_res>>
    /\ UNCHANGED notWriter

\* self.kill().await: the child is signalled (ChildExit follows whenever the
\* kill takes effect); a failure is logged only
ShutdownKill(c) ==
    /\ call_pc[c] = "sd_kill"
    /\ child_killed' = TRUE
    /\ sd_polls' = [sd_polls EXCEPT ![c] = 0]
    /\ call_pc' = [call_pc EXCEPT ![c] = "sd_poll"]
    /\ UNCHANGED <<write_q, wr_pc, wr_cur, child_in, pty_size, pty_broken,
                   shutdown_flag, call_res, enq_log>>
    /\ UNCHANGED notWriter

\* one round of the loop under timeout(500 ms): try_wait reports the exit
\* and shutdown returns, or the task sleeps 50 ms; when the timeout fires
\* shutdown returns as well
ShutdownPoll(c) ==
    /\ call_pc[c] = "sd_poll"
    /\ IF pty_broken \/ sd_polls[c] >= MaxShutdownPolls
       THEN /\ call_pc' = [call_pc EXCEPT ![c] = "idle"]
            /\ call_res' = [call_res EXCEPT ![c] = "ok"]
            /\ UNCHANGED sd_polls
       ELSE /\ sd_polls' = [sd_polls EXCEPT ![c] = @ + 1]
            /\ UNCHANGED <<call_pc, call_res>>
    /\ UNCHANGED <<write_q, wr_pc, wr_cur, child_in, pty_size, pty_broken,
                   shutdown_flag, child_killed, enq_log>>
    /\ UNCHANGED notWriter

\* the child exits or closes its side: the master writer fails from now on
ChildExit ==
    /\ ~pty_broken
    /\ pty_broken' = TRUE
    /\ UNCHANGED <<write_q, wr_pc, wr_cur, child_in, pty_size, shutdown_flag,
                   call_pc, call_res, enq_log>>
    /\ UNCHANGED <<child_killed, sd_polls>>
    /\ UNCHANGED notWriter

\* a plausible slip: the callers of the commands left in the channel are
\* not answered
DropResponsesKeep(q, res) == res

\* every caller whose command is still in q loses its response channel
DropResponses(q, res) ==
    [c \in Callers |->
        IF \E i \in 1..Len(q) : q[i].from = c /\ q[i].kind # "Shutdown"
        THEN "response_closed" ELSE res[c]]

DropPcs(q, pcs) ==
    [c \in Callers |->
        IF \E i \in 1..Len(q) : q[i].from = c /\ q[i].kind # "Shutdown"
        THEN "idle" ELSE pcs[c]]

DropLog(q, log) ==
    [i \in 1..Len(log) |->
        IF \E j \in 1..Len(q) : q[j].seq = i
        THEN [log[i] EXCEPT !.st = "dropped"] ELSE log[i]]

\* writer thread: write_rx.blocking_recv() returned Some(cmd)
WriterRecv ==
    /\ wr_pc = "recv"
    /\ write_q # <<>>
    /\ UNCHANGED <<child_killed, sd_polls>>
    /\ UNCHANGED notWriter
    /\ LET i    == ChanRecvIndex(write_q)
           cmd  == write_q[i]
           rest == RemoveAt(write_q, i)
       IN  CASE cmd.kind = "Write" ->
                  IF pty_broken
                  THEN \* write_all fails: Err is sent back on the oneshot
                       /\ write_q' = rest
                       /\ call_res' = [call_res EXCEPT ![cmd.from] = "io_error"]
                       /\ call_pc' = [call_pc EXCEPT ![cmd.from] = "idle"]
                       /\ enq_log' = [enq_log EXCEPT ![cmd.seq].st = "err"]
                       /\ UNCHANGED <<wr_pc, wr_cur, child_in, pty_size, pty_broken,
                                      shutdown_flag>>
                  ELSE /\ write_q' = rest
                       /\ wr_pc' = "writing"
                       /\ wr_cur' = [seq |-> cmd.seq, data |-> cmd.data, pos |-> 0,
                                     from |-> cmd.from]
                       /\ enq_log' = [enq_log EXCEPT ![cmd.seq].st = "writing"]
                       /\ UNCHANGED <<child_in, pty_size, pty_broken, shutdown_flag,
                                      call_pc, call_res>>
             [] cmd.kind = "Resize" ->
                  /\ write_q' = rest
                  /\ pty_size' = IF pty_broken THEN pty_size ELSE <<cmd.cols, cmd.rows>>
                  /\ call_res' = [call_res EXCEPT ![cmd.from] =
                                     IF pty_broken THEN "io_error" ELSE "ok"]
                  /\ call_pc' = [call_pc EXCEPT ![cmd.from] = "idle"]
                  /\ enq_log' = [enq_log EXCEPT ![cmd.seq].st =
                                     IF pty_broken THEN "err" ELSE "ok"]
                  /\ UNCHANGED <<wr_pc, wr_cur, child_in, pty_broken, shutdown_flag>>
             [] OTHER ->
                  \* Shutdown: store the flag and break; write_rx is dropped
                  \* with whatever is still queued
                  /\ shutdown_flag' = TRUE
                  /\ wr_pc' = "exited"
                  /\ write_q' = <<>>
                  /\ call_res' = DropResponses(rest, call_res)
                  /\ call_pc' = DropPcs(rest, call_pc)
                  /\ enq_log' = DropLog(rest, [enq_log EXCEPT ![cmd.seq].st = "ok"])
                  /\ UNCHANGED <<wr_cur, child_in, pty_size, pty_broken>>

\* writer thread inside write_all: one more byte goes to the master; after
\* the last byte, flush and send Ok on the oneshot.  When the master fails,
\* write_all returns the error with the bytes already written left written.
WriterWriteByte ==
    /\ wr_pc = "writing"
    /\ IF pty_broken
       THEN /\ wr_pc' = "recv"
            /\ wr_cur' = [seq |-> 0, data |-> <<>>, pos |-> 0, from |-> "none"]
            /\ call_res' = [call_res EXCEPT ![wr_cur.from] = "io_error"]
            /\ call_pc' = [call_pc EXCEPT ![wr_cur.from] = "idle"]
            /\ enq_log' = [enq_log EXCEPT ![wr_cur.seq].st = "err"]
            /\ UNCHANGED child_in
       ELSE LET pos == wr_cur.pos + 1
            IN  /\ child_in' = Append(child_in, wr_cur.data[pos])
                /\ IF pos = Len(wr_cur.data)
                   THEN /\ wr_pc' = "recv"
                        /\ wr_cur' = [seq |-> 0, data |-> <<>>, pos |-> 0, from |-> "none"]
                        /\ call_res' = [call_res EXCEPT ![wr_cur.from] = "ok"]
                        /\ call_pc' = [call_pc EXCEPT ![wr_cur.from] = "idle"]
                        /\ enq_log' = [enq_log EXCEPT ![wr_cur.seq].st = "ok",
                                                      ![wr_cur.seq].sent = pos]
                   ELSE /\ wr_cur' = [wr_cur EXCEPT !.pos = pos]
                        /\ enq_log' = [enq_log EXCEPT ![wr_cur.seq].sent = pos]
                        /\ UNCHANGED <<wr_pc, call_res, call_pc>>
    /\ UNCHANGED <<write_q, pty_size, pty_broken, shutdown_flag>>
    /\ UNCHANGED <<child_killed, sd_polls>>
    /\ UNCHANGED notWriter

InitWriter ==
    /\ write_q = <<>>
    /\ wr_pc = "recv"
    /\ wr_cur = [seq |-> 0, data |-> <<>>, pos |-> 0, from |-> "none"]
    /\ child_in = <<>>
    /\ pty_size = <<120, 40>>
    /\ pty_broken = FALSE
    /\ shutdown_flag = FALSE
    /\ child_killed = FALSE
    /\ sd_polls = [c \in Callers |-> 0]
    /\ call_pc = [c \in Callers |-> "idle"]
    /\ call_res = [c \in Callers |-> "none"]
    /\ enq_log = <<>>

NextWriter ==
    \/ \E c \in Callers, d \in WriteData : WriteSend(c, d)
    \/ \E c \in Callers, sz \in Sizes : ResizeSend(c, sz)
    \/ \E c \in Callers : ShutdownCall(c)
    \/ \E c \in Callers : ShutdownSend(c)
    \/ \E c \in Callers : ShutdownKill(c)
    \/ \E c \in Callers : ShutdownPoll(c)
    \/ ChildExit
    \/ WriterRecv
    \/ WriterWriteByte

(***************************************************************************)
(* Claims about the PTY supervisor                                         *)
(***************************************************************************)
\* C1: whenever the reader thread has processed every chunk it read, of
\* whatever sizes, get_buffer() is exactly the last min(L, C) bytes of the L
\* bytes read so far under capacity C, so its length never exceeds C.
C1_ReplayTail ==
    rd_pc \in {"read", "exited"} =>
        /\ get_buffer = LastN(output, Min(Len(output), buffer_limit))
        /\ Len(get_buffer) <= buffer_limit

\* C1 witness: capacity 3, one chunk longer than the capacity and a later
\* short chunk have both been stored, and the buffer is full.
C1_Witness ==
    /\ rd_pc = "read"
    /\ buffer_limit = MaxCap
    /\ Len(output) = MaxOutput
    /\ Len(buffer) = MaxCap
    /\ buffer # SubSeq(output, 1, MaxCap)

\* the bytes each enqueued Write has handed to the child, in channel order
SentParts == [i \in 1..Len(enq_log) |-> SubSeq(enq_log[i].data, 1, enq_log[i].sent)]

\* C2: the bytes handed to the child are the concatenation, in the order of
\* enqueueing, of the writes taken from the channel: every write before the
\* last one taken is whole or absent (failed), none is duplicated, and no
\* write is taken while an earlier one still waits in the channel.
C2_WritesInOrder ==
    /\ child_in = Concat(SentParts)
    /\ \A i, j \in 1..Len(enq_log) :
          (i < j /\ enq_log[j].st \in {"writing", "ok", "err"}) =>
              /\ enq_log[i].st # "queued"
              /\ enq_log[j].sent > 0 =>
                    enq_log[i].sent \in {0, Len(enq_log[i].data)}

\* C2 witness: three different writes from three callers were all delivered.
C2_Witness ==
    /\ Len(enq_log) = MaxCalls
    /\ \A i \in 1..Len(enq_log) : enq_log[i].kind = "Write" /\ enq_log[i].st = "ok"
    /\ enq_log[1].data # enq_log[2].data
    /\ Cardinality({c \in Callers : call_res[c] = "ok"}) = MaxCalls

\* C33: shutdown() always completes: once called it stores the flag, sends
\* Shutdown, kills the child and returns after at most the polls its
\* timeout allows, in every state of the command channel (empty, holding
\* pending writes, or full while the writer thread is blocked in a write)
\* and whether or not the child exits.
C33_ShutdownCompletes ==
    \A c \in Callers : (call_pc[c] = "sd_send") ~> (call_pc[c] = "idle")

\* the position in the order of sending of the first Shutdown command that
\* entered the channel, 0 when there is none
FirstShutdown ==
    LET sds == {i \in 1..Len(enq_log) :
                  enq_log[i].kind = "Shutdown" /\ enq_log[i].st # "refused"}
    IN  IF sds = {} THEN 0 ELSE CHOOSE i \in sds : \A j \in sds : i <= j

WhiteSpace == {"SP", "TAB", "CR", "LF"}

\* the characters regex::escape puts a backslash before
RegexMeta == {"BSL", ".", "+", "*", "?", "(", ")", "|", "[", "]", "{", "}", "^",
              "$", "#", "&", "-", "~"}

PH_ID == <<"{", "i", "d", "}">>

PH_MESSAGE == <<"{", "m", "e", "s", "s", "a", "g", "e", "}">>

\* str::replace: every non-overlapping occurrence of pat, left to right; the
\* replacement is not scanned again
RECURSIVE Replace(_, _, _)
Replace(s, pat, rep) ==
    IF Len(s) < Len(pat) \/ pat = <<>> THEN s
    ELSE IF SubSeq(s, 1, Len(pat)) = pat
         THEN rep \o Replace(SubSeq(s, Len(pat) + 1, Len(s)), pat, rep)
         ELSE <<s[1]>> \o Replace(Tail(s), pat, rep)

\* str::lines: split at LF, a CR just before the LF belongs to the line
\* ending; no empty last line after a final LF
RECURSIVE LinesFrom(_, _)
LinesFrom(s, cur) ==
    IF s = <<>> THEN (IF cur = <<>> THEN <<>> ELSE <<cur>>)
    ELSE IF s[1] = "LF"
         THEN <<(IF cur # <<>> /\ cur[Len(cur)] = "CR"
                 THEN SubSeq(cur, 1, Len(cur) - 1) ELSE cur)>>
              \o LinesFrom(Tail(s), <<>>)
         ELSE LinesFrom(Tail(s), Append(cur, s[1]))

Lines(s) == LinesFrom(s, <<>>)

RECURSIVE TrimStart(_)
TrimStart(s) == IF s # <<>> /\ s[1] \in WhiteSpace THEN TrimStart(Tail(s)) ELSE s

RECURSIVE TrimEnd(_)
TrimEnd(s) ==
    IF s # <<>> /\ s[Len(s)] \in WhiteSpace THEN TrimEnd(SubSeq(s, 1, Len(s) - 1)) ELSE s

Trim(s) == TrimEnd(TrimStart(s))

\* [&str]::join(sep)
RECURSIVE Join(_, _)
Join(ls, sep) ==
    IF ls = <<>> THEN <<>>
    ELSE IF Len(ls) = 1 THEN ls[1]
    ELSE ls[1] \o sep \o Join(Tail(ls), sep)

\* a plausible slip: the id goes into the pattern as it is
RegexEscapeNone(s) == s

\* regex::escape
RegexEscape(s) ==
    Concat([i \in 1..Len(s) |-> IF s[i] \in RegexMeta THEN <<"BSL", s[i]>> ELSE <<s[i]>>])

(***************************************************************************)
(* regex::Regex for the patterns the agent table uses: literal characters, *)
(* backslash escapes of punctuation, \s, "." and the postfix "+".  A       *)
(* pattern is compiled to atoms [kind, c, plus]; anything else is a        *)
(* compile error, as is a "+" with nothing to repeat or a lone backslash.  *)
(***************************************************************************)
ReAtom(kind, c, plus) == [kind |-> kind, c |-> c, plus |-> plus]

RECURSIVE ReCompileFrom(_, _, _)
ReCompileFrom(src, i, acc) ==
    IF i > Len(src) THEN [ok |-> TRUE, atoms |-> acc]
    ELSE LET c == src[i]
             esc == c = "BSL"
             width == IF esc THEN 2 ELSE 1
             plus == i + width <= Len(src) /\ src[i + width] = "+"
             nxt == i + width + (IF plus THEN 1 ELSE 0)
         IN  IF esc
             THEN IF i + 1 > Len(src) THEN [ok |-> FALSE, atoms |-> <<>>]
                  ELSE IF src[i + 1] = "s"
                       THEN ReCompileFrom(src, nxt, Append(acc, ReAtom("space", "s", plus)))
                  ELSE IF src[i + 1] \in RegexMeta
                       THEN ReCompileFrom(src, nxt, Append(acc, ReAtom("lit", src[i + 1], plus)))
                  ELSE [ok |-> FALSE, atoms |-> <<>>]
             ELSE IF c = "."
                  THEN ReCompileFrom(src, nxt, Append(acc, ReAtom("any", ".", plus)))
             ELSE IF c \in {"+", "*", "?", "(", ")", "|", "[", "{", "^", "$"}
                  THEN [ok |-> FALSE, atoms |-> <<>>]
             ELSE ReCompileFrom(src, nxt, Append(acc, ReAtom("lit", c, plus)))

\* regex::Regex::new
ReCompile(src) == ReCompileFrom(src, 1, <<>>)

AtomMatches(atom, ch) ==
    CASE atom.kind = "lit" -> ch = atom.c
      [] atom.kind = "space" -> ch \in WhiteSpace
      [] OTHER -> ch # "LF"

\* the atoms from k on match a prefix of line[pos..]
RECURSIVE ReMatchAt(_, _, _, _)
ReMatchAt(atoms, k, line, pos) ==
    IF k > Len(atoms) THEN TRUE
    ELSE IF pos > Len(line) THEN FALSE
    ELSE IF ~AtomMatches(atoms[k], line[pos]) THEN FALSE
    ELSE \/ ReMatchAt(atoms, k + 1, line, pos + 1)
         \/ atoms[k].plus /\ ReMatchAt(atoms, k, line, pos + 1)

\* Regex::is_match: the pattern matches somewhere in the line
ReIsMatch(atoms, line) ==
    \E pos \in 1..(Len(line) + 1) : ReMatchAt(atoms, 1, line, pos)

(***************************************************************************)
(* GenericAgent                                                            *)
(***************************************************************************)
\* the agent table: the example of the agent descriptor file, the agent of
\* scenario S1, and an entry whose done_regex does not compile
ExampleConfig ==
    [sentinel_template |-> <<"[", "[", "R", "E", "Q", "U", "E", "S", "T", "SP", "{", "i", "d", "}", "]", "]", "SP", "{", "m", "e", "s", "s", "a", "g", "e", "}">>,
     done_template |-> <<"[", "[", "D", "O", "N", "E", "SP", "{", "i", "d", "}", "]", "]">>,
     done_regex |-> 
        <<"BSL", "[", "BSL", "[", "D", "O", "N", "E", "BSL", "s", "+", "{",
          "i", "d", "}", "BSL", "]", "BSL", "]">>]

S1Config ==
    [sentinel_template |-> <<"<", "r", "e", "q", "SP", "{", "i", "d", "}", ">", "SP", "{", "m", "e", "s", "s", "a", "g", "e", "}">>,
     done_template |-> <<"<", "d", "o", "n", "e", "SP", "{", "i", "d", "}", ">">>,
     done_regex |-> <<"<", "d", "o", "n", "e", "SP", "{", "i", "d", "}", ">">>]

BadRegexConfig ==
    [sentinel_template |-> <<"<", "r", "e", "q", "SP", "{", "i", "d", "}", ">", "SP", "{", "m", "e", "s", "s", "a", "g", "e", "}">>,
     done_template |-> <<"<", "d", "o", "n", "e", "SP", "{", "i", "d", "}", ">">>,
     done_regex |-> <<"+", "{", "i", "d", "}">>]

AgentConfigs == {ExampleConfig, S1Config, BadRegexConfig}

\* request ids
Ids == {<<"a">>, <<"b">>, <<"a", "x", "b">>, <<"a", ".", "b">>}

\* done_template.replace("{id}", message_id)
DoneMarker(cfg, id) == Replace(cfg.done_template, PH_ID, id)

\* a plausible slip: the last line decides, blank or not
IsReplyCompleteLastLine(cfg, text, id) ==
    LET re == ReCompile(Replace(cfg.done_regex, PH_ID, RegexEscape(id)))
        ls == Lines(text)
    IN  re.ok /\ ls # <<>> /\ ReIsMatch(re.atoms, ls[Len(ls)])

\* lines.rev().find(|l| !l.trim().is_empty()): index of the line, 0 for None
RECURSIVE RFindNonBlank(_, _)
RFindNonBlank(ls, i) ==
    IF i = 0 THEN 0
    ELSE IF Trim(ls[i]) # <<>> THEN i
    ELSE RFindNonBlank(ls, i - 1)

\* the pattern both is_reply_complete and strip_done_marker build
DonePattern(cfg, id) == Replace(cfg.done_regex, PH_ID, RegexEscape(id))

\* GenericAgent::is_reply_complete
is_reply_complete(cfg, text, id) ==
    LET re == ReCompile(DonePattern(cfg, id))
        ls == Lines(text)
        i == RFindNonBlank(ls, Len(ls))
    IN  IF ~re.ok THEN FALSE
        ELSE IF i = 0 THEN FALSE
        ELSE ReIsMatch(re.atoms, ls[i])

\* the loop of strip_done_marker over lines.iter().rev(), from line i down;
\* the result is the kept lines in their original order
RECURSIVE StripLoop(_, _, _, _)
StripLoop(atoms, ls, i, found_marker) ==
    IF i = 0 THEN <<>>
    ELSE IF ~found_marker /\ Trim(ls[i]) = <<>>
         THEN StripLoop(atoms, ls, i - 1, found_marker)
    ELSE IF ~found_marker /\ ReIsMatch(atoms, ls[i])
         THEN StripLoop(atoms, ls, i - 1, TRUE)
    ELSE Append(StripLoop(atoms, ls, i - 1, found_marker), ls[i])

\* a plausible slip: found_marker is never set, every matching line goes
RECURSIVE StripLoopAll(_, _, _)
StripLoopAll(atoms, ls, i) ==
    IF i = 0 THEN <<>>
    ELSE IF Trim(ls[i]) = <<>> \/ ReIsMatch(atoms, ls[i])
         THEN StripLoopAll(atoms, ls, i - 1)
    ELSE Append(StripLoopAll(atoms, ls, i - 1), ls[i])

StripDoneMarkerAll(cfg, text, id) ==
    LET re == ReCompile(DonePattern(cfg, id))
        ls == Lines(text)
    IN  IF ~re.ok THEN text
        ELSE TrimEnd(Join(StripLoopAll(re.atoms, ls, Len(ls)), <<"LF">>))

\* GenericAgent::strip_done_marker
strip_done_marker(cfg, text, id) ==
    LET re == ReCompile(DonePattern(cfg, id))
        ls == Lines(text)
    IN  IF ~re.ok THEN text
        ELSE TrimEnd(Join(StripLoop(re.atoms, ls, Len(ls), FALSE), <<"LF">>))

\* pieces of output of the child: line ends, blanks, reply text, and the
\* done marker of the agent for two of the ids
Pieces(cfg) ==
    {<<"LF">>, <<"CR">>, <<"SP">>, <<"h", "i">>,
     DoneMarker(cfg, <<"a">>), DoneMarker(cfg, <<"a", "x", "b">>)}

\* GenericAgent::new(name, config)
NewAgent(cfg) ==
    /\ a_pc = "new"
    /\ a_cfg' = cfg
    /\ a_pc' = "emit"
    /\ UNCHANGED <<a_text, a_n, a_id, a_complete, a_reply, a_reply_complete,
                   a_marked_complete, a_message, a_injected>>
    /\ UNCHANGED notAdapter

\* the child emits one more piece of output
EmitPiece(p) ==
    /\ a_pc = "emit"
    /\ a_n < MaxPieces
    /\ a_text' = a_text \o p
    /\ a_n' = a_n + 1
    /\ UNCHANGED <<a_pc, a_cfg, a_id, a_complete, a_reply, a_reply_complete,
                   a_marked_complete, a_message, a_injected>>
    /\ UNCHANGED notAdapter

\* one poll of the reply: is the text complete for id, and what is the reply
CheckReply(id) ==
    /\ a_pc = "emit"
    /\ a_pc' = "checked"
    /\ a_id' = id
    /\ a_complete' = is_reply_complete(a_cfg, a_text, id)
    /\ a_reply' = strip_done_marker(a_cfg, a_text, id)
    /\ a_reply_complete' = is_reply_complete(a_cfg, strip_done_marker(a_cfg, a_text, id), id)
    /\ a_marked_complete' =
          is_reply_complete(a_cfg,
              strip_done_marker(a_cfg, a_text, id) \o <<"LF">> \o DoneMarker(a_cfg, id)
                  \o <<"LF">>, id)
    /\ UNCHANGED <<a_cfg, a_text, a_n, a_message, a_injected>>
    /\ UNCHANGED notAdapter

\* prompts
Messages == {<<"h", "i">>, <<"{", "i", "d", "}">>, <<"{", "m", "e", "s", "s", "a", "g", "e", "}">>,
             <<"x", "{", "i", "d", "}", "{", "m", "e", "s", "s", "a", "g", "e", "}">>}

\* the lines of the format! string between the prefix and the done marker
FORMAT_IMPORTANT ==
    <<"I", "M", "P", "O", "R", "T", "A", "N", "T", ":", "LF">>

FORMAT_REPLY ==
    <<"-", "SP", "R", "e", "p", "l", "y", "SP", "n", "o", "r", "m", "a",
      "l", "l", "y", ",", "SP", "i", "n", "SP", "E", "n", "g", "l", "i",
      "s", "h", ".", "LF">>

FORMAT_END ==
    <<"-", "SP", "E", "n", "d", "SP", "y", "o", "u", "r", "SP", "r", "e",
      "p", "l", "y", "SP", "w", "i", "t", "h", "SP", "t", "h", "i", "s",
      "SP", "e", "x", "a", "c", "t", "SP", "f", "i", "n", "a", "l", "SP",
      "l", "i", "n", "e", "SP", "(", "v", "e", "r", "b", "a", "t", "i",
      "m", ",", "SP", "o", "n", "SP", "i", "t", "s", "SP", "o", "w", "n",
      "SP", "l", "i", "n", "e", ")", ":", "LF">>

\* a plausible slip: the message is put in before the id
InjectMessageFirst(cfg, message, message_id) ==
    LET prefix == Replace(Replace(cfg.sentinel_template, PH_MESSAGE, message),
                          PH_ID, message_id)
        done_marker == Replace(cfg.done_template, PH_ID, message_id)
    IN  prefix \o <<"LF", "LF">> \o FORMAT_IMPORTANT \o FORMAT_REPLY \o FORMAT_END
            \o done_marker

\* GenericAgent::inject_message_sentinel
inject_message_sentinel(cfg, message, message_id) ==
    LET prefix == Replace(Replace(cfg.sentinel_template, PH_ID, message_id),
                          PH_MESSAGE, message)
        done_marker == Replace(cfg.done_template, PH_ID, message_id)
    IN  prefix \o <<"LF", "LF">> \o FORMAT_IMPORTANT \o FORMAT_REPLY \o FORMAT_END
            \o done_marker

\* a prompt is framed for the child
Inject(message, id) ==
    /\ a_pc = "emit"
    /\ a_n = 0
    /\ a_pc' = "injected"
    /\ a_id' = id
    /\ a_message' = message
    /\ a_injected' = inject_message_sentinel(a_cfg, message, id)
    /\ UNCHANGED <<a_cfg, a_text, a_n, a_complete, a_reply, a_reply_complete,
                   a_marked_complete>>
    /\ UNCHANGED notAdapter

InitAdapter ==
    /\ a_pc = "new"
    /\ a_cfg = ExampleConfig
    /\ a_text = <<>>
    /\ a_n = 0
    /\ a_id = <<>>
    /\ a_complete = FALSE
    /\ a_reply = <<>>
    /\ a_reply_complete = FALSE
    /\ a_marked_complete = FALSE
    /\ a_message = <<>>
    /\ a_injected = <<>>

NextAdapter ==
    \/ \E cfg \in AgentConfigs : NewAgent(cfg)
    \/ \E p \in Pieces(a_cfg) : EmitPiece(p)
    \/ \E id \in Ids : CheckReply(id)
    \/ \E m \in Messages, id \in Ids : Inject(m, id)

(***************************************************************************)
(* Claims about the agent adapter                                          *)
(***************************************************************************)
\* the lines of a text, read off the positions of its line feeds
LineStarts(text) == {1} \cup {i + 1 : i \in {j \in 1..Len(text) : text[j] = "LF"}}

LineAt(text, p) ==
    LET ends == {i \in p..Len(text) : text[i] = "LF"}
    IN  IF ends = {} THEN SubSeq(text, p, Len(text))
        ELSE LET e == CHOOSE i \in ends : \A k \in ends : i <= k
             IN  IF e > p /\ text[e - 1] = "CR" THEN SubSeq(text, p, e - 2)
                 ELSE SubSeq(text, p, e - 1)

IsBlankLine(l) == \A i \in 1..Len(l) : l[i] \in WhiteSpace

\* start positions of the non-blank lines of a text
NonBlankStarts(text) ==
    {p \in LineStarts(text) : p <= Len(text) /\ ~IsBlankLine(LineAt(text, p))}

\* line l matches done_regex with {id} replaced by the escaped id
MatchesDone(cfg, l, id) ==
    LET re == ReCompile(DonePattern(cfg, id))
    IN  re.ok /\ ReIsMatch(re.atoms, l)

\* C5 as stated: for every text that is_reply_complete accepts for id, the
\* stripped reply followed by the done-marker line is accepted and the
\* stripped reply itself is rejected.
C5_StrippedReplyRejected ==
    (a_pc = "checked" /\ a_complete) => (a_marked_complete /\ ~a_reply_complete)

\* the non-blank line just before the last non-blank line matches the done
\* regex too (the marker is repeated)
RepeatedMarker(cfg, text, id) ==
    LET nb == NonBlankStarts(text)
    IN  \E p, q \in nb :
           /\ p < q
           /\ \A r \in nb : r <= p \/ r = q
           /\ MatchesDone(cfg, LineAt(text, p), id)

\* C5 amended: for every text that is_reply_complete accepts for id, the
\* stripped reply followed by the done-marker line is accepted, and the
\* stripped reply itself is rejected unless the non-blank line just before
\* the removed marker line also matches the done regex: only the last marker
\* line is removed, and then the reply is still accepted.
C5_StrippedReplyRejectedUnlessRepeated ==
    (a_pc = "checked" /\ a_complete) =>
        /\ a_marked_complete
        /\ a_reply_complete <=> RepeatedMarker(a_cfg, a_text, a_id)

\* C5 witness: "hi", a line end and the done marker were accepted and
\* stripped to "hi", which is rejected.
C5_Witness ==
    /\ a_pc = "checked"
    /\ a_complete
    /\ a_reply = <<"h", "i">>
    /\ ~a_reply_complete
    /\ a_marked_complete

\* C6: is_reply_complete(text, id) is true exactly when the text has a
\* non-blank line and its last non-blank line matches done_regex with {id}
\* replaced by the escaped id; so it is false for empty or all-blank text and
\* when the marker is only on a line followed by another non-blank line.
C6_CompleteIffLastNonBlankMatches ==
    a_pc = "checked" =>
        (a_complete <=>
            \E p \in NonBlankStarts(a_text) :
                /\ \A q \in NonBlankStarts(a_text) : q <= p
                /\ MatchesDone(a_cfg, LineAt(a_text, p), a_id))

\* C6 witness: the text is accepted although a blank line follows the line
\* with the marker.
C6_Witness ==
    /\ a_pc = "checked"
    /\ a_complete
    /\ \E p \in NonBlankStarts(a_text) :
          \E q \in LineStarts(a_text) : q > p /\ q <= Len(a_text)

\* the last non-blank line of the text is, up to surrounding blanks, marker
LastNonBlankIs(text, marker) ==
    \E p \in NonBlankStarts(text) :
        /\ \A q \in NonBlankStarts(text) : q <= p
        /\ Trim(LineAt(text, p)) = marker

\* C7: with the example done_template and done_regex, a text whose last
\* non-blank line is the done marker of request id A is never complete for a
\* different request id B.
C7_MarkerOfOtherIdRejected ==
    (a_pc = "checked" /\ a_cfg = ExampleConfig) =>
        \A A \in Ids :
            (A # a_id /\ LastNonBlankIs(a_text, DoneMarker(ExampleConfig, A)))
                => ~a_complete

\* C7 witness: the text ends with the marker of id axb and was checked, and
\* rejected, for id a.b.
C7_Witness ==
    /\ a_pc = "checked"
    /\ a_cfg = ExampleConfig
    /\ a_id = <<"a", ".", "b">>
    /\ LastNonBlankIs(a_text, DoneMarker(ExampleConfig, <<"a", "x", "b">>))
    /\ ~a_complete

\* one pass over the template putting id for {id} and message for
\* {message}; what is put in is not looked at again
RECURSIVE SubstVerbatim(_, _, _)
SubstVerbatim(tmpl, id, message) ==
    IF tmpl = <<>> THEN <<>>
    ELSE IF IsPrefix(PH_ID, tmpl)
         THEN id \o SubstVerbatim(SubSeq(tmpl, Len(PH_ID) + 1, Len(tmpl)), id, message)
    ELSE IF IsPrefix(PH_MESSAGE, tmpl)
         THEN message
              \o SubstVerbatim(SubSeq(tmpl, Len(PH_MESSAGE) + 1, Len(tmpl)), id, message)
    ELSE <<tmpl[1]>> \o SubstVerbatim(Tail(tmpl), id, message)

\* the fixed text of the PTY prompt framing between the substituted
\* sentinel_template and the substituted done_template
FRAMING_TRAILER ==
    <<"LF", "LF", "I", "M", "P", "O", "R", "T", "A", "N", "T", ":", "LF",
      "-", "SP", "R", "e", "p", "l", "y", "SP", "n", "o", "r", "m", "a",
      "l", "l", "y", ",", "SP", "i", "n", "SP", "E", "n", "g", "l", "i",
      "s", "h", ".", "LF", "-", "SP", "E", "n", "d", "SP", "y", "o", "u",
      "r", "SP", "r", "e", "p", "l", "y", "SP", "w", "i", "t", "h", "SP",
      "t", "h", "i", "s", "SP", "e", "x", "a", "c", "t", "SP", "f", "i",
      "n", "a", "l", "SP", "l", "i", "n", "e", "SP", "(", "v", "e", "r",
      "b", "a", "t", "i", "m", ",", "SP", "o", "n", "SP", "i", "t", "s",
      "SP", "o", "w", "n", "SP", "l", "i", "n", "e", ")", ":", "LF">>

\* C8: inject_message(prompt, id) followed by the line terminator is the
\* sentinel_template with {id} and {message} substituted (the prompt put in
\* verbatim), the fixed trailer, the done_template with {id} substituted,
\* and a line feed.
C8_InjectFraming ==
    a_pc = "injected" =>
        a_injected \o <<"LF">> =
            SubstVerbatim(a_cfg.sentinel_template, a_id, a_message)
                \o FRAMING_TRAILER
                \o SubstVerbatim(a_cfg.done_template, a_id, <<>>)
                \o <<"LF">>

\* C8 witness: a prompt that contains the text {id} was framed and is found
\* unchanged in the result.
C8_Witness ==
    /\ a_pc = "injected"
    /\ a_message = <<"x", "{", "i", "d", "}", "{", "m", "e", "s", "s", "a", "g", "e", "}">>
    /\ \E i \in 1..Len(a_injected) :
          SubSeq(a_injected, i, i + Len(a_message) - 1) = a_message

\* the lines strip_done_marker is to keep: all of them when no line
\* matches the done marker; otherwise all but the last matching line and
\* the blank lines after it
KeptLines(cfg, text, id) ==
    LET ls == Lines(text)
        hits == {i \in 1..Len(ls) : MatchesDone(cfg, ls[i], id)}
    IN  IF hits = {} THEN ls
        ELSE LET m == CHOOSE i \in hits : \A j \in hits : j <= i
             IN  SubSeq(ls, 1, m - 1)
                 \o SelectSeq(SubSeq(ls, m + 1, Len(ls)),
                              LAMBDA l : ~IsBlankLine(l))

\* C39: strip_done_marker(text, id) removes only the last line that matches
\* the done marker and the blank lines after it; every other line, the
\* blank lines inside the reply included, is kept in order; when no line
\* matches, the result is the text with only its trailing blank lines and
\* trailing whitespace removed.  (Stated for a done_regex that compiles.)
C39_StripKeepsOtherLines ==
    (a_pc = "checked" /\ ReCompile(DonePattern(a_cfg, a_id)).ok) =>
        a_reply = TrimEnd(Join(KeptLines(a_cfg, a_text, a_id), <<"LF">>))

(***************************************************************************)
(* AgentSession: the state machine and the request queue.  Requests are    *)
(* numbered in the order send() enqueues them; time is abstracted: a       *)
(* timeout is an event that may happen whenever its waiting condition      *)
(* holds.                                                                  *)
(***************************************************************************)
Reqs == 1..MaxReqs

SessionErrors == {"QueueTimeout", "Timeout", "Stuck", "Interrupted", "Stopped"}

\* a plausible slip: a request is dispatched whenever the PTY is up
CanDispatchBusyToo(state) == state \in {"Ready", "Busy"}

\* a request is dispatched only in state Ready
CanDispatch(state) == state = "Ready"

\* a plausible slip: the request enqueued last is taken
DispatchIndexNewest(q) == Len(q)

\* the request at the head of the queue is taken
DispatchIndex(q) == 1

\* a plausible slip: the session is left in Stuck after the request failed
AfterStuckStays == "Stuck"

\* the state the session returns to after a stuck request has failed
AfterStuck == "Ready"

\* a plausible slip: stop() drains the queue and forgets the request in flight
FailQueuedOnly(req) ==
    [r \in Reqs |-> IF req[r] = "queued" THEN "Stopped" ELSE req[r]]

\* stop(): every request queued or in flight fails with Stopped
FailPending(req) ==
    [r \in Reqs |-> IF req[r] \in {"queued", "busy"} THEN "Stopped" ELSE req[r]]

\* a plausible slip: the wait in the queue has no bound
QueueWaitExpiresNever(st) == FALSE

\* a request that is still queued when queue_wait has passed fails
QueueWaitExpires(st) == st = "queued"

\* a plausible slip: start() is a no-op in Ready only
StartIsNoopReadyOnly(state) == state = "Ready"

\* start() is a no-op in Ready or Busy
StartIsNoop(state) == state \in {"Ready", "Busy"}

\* a plausible slip: the PTY is torn down when the deadline elapses
PtyAfterTimeoutGone(pty) == "none"

\* the deadline path leaves the PTY as it is
PtyAfterTimeout(pty) == pty

\* a plausible slip: the poll loop completes a request without a signal
CanCompleteAlways(signal) == TRUE

\* the poll loop completes a request when the done marker or a log-provider
\* reply for it was matched
CanComplete(signal) == signal

\* start(): a no-op in Ready or Busy, otherwise the session goes to Starting
\* and asks the PtyManager to spawn the child; PtyManager::create inserts the
\* new handle under the agent's name, in place of the one indexed there
StartBegin ==
    /\ s_starts < MaxStarts
    /\ ~StartIsNoop(s_state)
    /\ s_starts' = s_starts + 1
    /\ s_state' = "Starting"
    /\ s_pty' = "live"
    /\ s_manager' = TRUE
    /\ s_handle' = s_handle + 1
    /\ s_wrote' = <<>>
    /\ UNCHANGED <<s_busy, s_queue, s_req, s_signal, s_elapsed>>
    /\ UNCHANGED notSession

\* start() called in Ready or Busy
StartNoop ==
    /\ s_starts < MaxStarts
    /\ StartIsNoop(s_state)
    /\ s_starts' = s_starts + 1
    /\ UNCHANGED <<s_state, s_busy, s_queue, s_req, s_pty, s_manager, s_handle,
                   s_wrote, s_signal, s_elapsed>>
    /\ UNCHANGED notSession

\* the ready pattern matched on the replay buffer
StartReady ==
    /\ s_state = "Starting"
    /\ s_state' = "Ready"
    /\ UNCHANGED <<s_busy, s_queue, s_req, s_pty, s_manager, s_handle, s_wrote,
                   s_starts, s_signal, s_elapsed>>
    /\ UNCHANGED notSession

\* an error pattern matched, the child exited, or startup timed out
StartFail ==
    /\ s_state = "Starting"
    /\ s_state' = "Failed"
    /\ UNCHANGED <<s_busy, s_queue, s_req, s_pty, s_manager, s_handle, s_wrote,
                   s_starts, s_signal, s_elapsed>>
    /\ UNCHANGED notSession

\* send(): the request is enqueued
SendEnqueue(r) ==
    /\ s_req[r] = "new"
    /\ \A q \in Reqs : q < r => s_req[q] # "new"
    /\ s_req' = [s_req EXCEPT ![r] = "queued"]
    /\ s_queue' = Append(s_queue, r)
    /\ UNCHANGED <<s_state, s_busy, s_pty, s_manager, s_handle, s_wrote,
                   s_starts, s_signal, s_elapsed>>
    /\ UNCHANGED notSession

\* send(): the request waited longer than queue_wait
QueueTimeout(r) ==
    /\ QueueWaitExpires(s_req[r])
    /\ s_req' = [s_req EXCEPT ![r] = "QueueTimeout"]
    /\ s_queue' = SelectSeq(s_queue, LAMBDA q : q # r)
    /\ UNCHANGED <<s_state, s_busy, s_pty, s_manager, s_handle, s_wrote,
                   s_starts, s_signal, s_elapsed>>
    /\ UNCHANGED notSession

\* the request at the head is dispatched: Ready -> Busy(request_id), the
\* framed prompt is written to the PTY
Dispatch ==
    /\ CanDispatch(s_state)
    /\ s_queue # <<>>
    /\ LET i == DispatchIndex(s_queue)
           r == s_queue[i]
       IN  /\ s_queue' = RemoveAt(s_queue, i)
           /\ s_req' = [s_req EXCEPT ![r] = "busy"]
           /\ s_busy' = r
    /\ s_state' = "Busy"
    /\ s_wrote' = <<"prompt">>
    /\ s_signal' = FALSE
    /\ s_elapsed' = 0
    /\ UNCHANGED <<s_pty, s_manager, s_handle, s_starts>>
    /\ UNCHANGED notSession

\* the child emits the done marker, or its reply appears in the log
ChildSignals ==
    /\ s_state = "Busy"
    /\ ~s_signal
    /\ s_signal' = TRUE
    /\ UNCHANGED <<s_state, s_busy, s_queue, s_req, s_pty, s_manager, s_handle,
                   s_wrote, s_starts, s_elapsed>>
    /\ UNCHANGED notSession

\* a poll of the dispatch loop finds no completion: time has passed
PollTick ==
    /\ s_state = "Busy"
    /\ ~s_signal
    /\ s_elapsed <= max_stuck_duration
    /\ s_elapsed' = s_elapsed + 1
    /\ UNCHANGED <<s_state, s_busy, s_queue, s_req, s_pty, s_manager, s_handle,
                   s_wrote, s_starts, s_signal>>
    /\ UNCHANGED notSession

\* the done marker or a log-provider reply was matched: Busy -> Ready
Complete ==
    /\ s_state = "Busy"
    /\ CanComplete(s_signal)
    /\ s_req' = [s_req EXCEPT ![s_busy] = "reply"]
    /\ s_state' = "Ready"
    /\ s_busy' = 0
    /\ s_signal' = FALSE
    /\ s_elapsed' = 0
    /\ UNCHANGED <<s_queue, s_pty, s_manager, s_handle, s_wrote, s_starts>>
    /\ UNCHANGED notSession

\* no completion for longer than max_stuck_duration: Busy -> Stuck,
\* interrupt bytes are sent, the request fails with Stuck
StuckDetect ==
    /\ s_state = "Busy"
    /\ ~s_signal
    /\ s_elapsed > max_stuck_duration
    /\ s_req' = [s_req EXCEPT ![s_busy] = "Stuck"]
    /\ s_state' = "Stuck"
    /\ s_busy' = 0
    /\ s_wrote' = Append(s_wrote, "interrupt")
    /\ s_signal' = FALSE
    /\ s_elapsed' = 0
    /\ UNCHANGED <<s_queue, s_pty, s_manager, s_handle, s_starts>>
    /\ UNCHANGED notSession

\* after the stuck request has failed the session returns to Ready
StuckRecover ==
    /\ s_state = "Stuck"
    /\ s_state' = AfterStuck
    /\ UNCHANGED <<s_busy, s_queue, s_req, s_pty, s_manager, s_handle, s_wrote,
                   s_starts, s_signal, s_elapsed>>
    /\ UNCHANGED notSession

\* the deadline of the request in flight elapsed: interrupt bytes are sent,
\* the request fails with Timeout, Busy -> Ready
DeadlineTimeout ==
    /\ s_state = "Busy"
    /\ ~s_signal
    /\ s_req' = [s_req EXCEPT ![s_busy] = "Timeout"]
    /\ s_state' = "Ready"
    /\ s_busy' = 0
    /\ s_wrote' = Append(s_wrote, "interrupt")
    /\ s_pty' = PtyAfterTimeout(s_pty)
    /\ s_signal' = FALSE
    /\ s_elapsed' = 0
    /\ UNCHANGED <<s_queue, s_manager, s_handle, s_starts>>
    /\ UNCHANGED notSession

\* interrupt(): interrupt bytes are written; the request in flight, if any,
\* fails with Interrupted; Busy -> Ready
Interrupt ==
    /\ s_pty = "live"
    /\ Len(s_wrote) < MaxWrites
    /\ IF s_state = "Busy"
       THEN /\ s_req' = [s_req EXCEPT ![s_busy] = "Interrupted"]
            /\ s_state' = "Ready"
            /\ s_busy' = 0
            /\ s_signal' = FALSE
            /\ s_elapsed' = 0
       ELSE UNCHANGED <<s_req, s_state, s_busy, s_signal, s_elapsed>>
    /\ s_wrote' = Append(s_wrote, "interrupt")
    /\ UNCHANGED <<s_queue, s_pty, s_manager, s_handle, s_starts>>
    /\ UNCHANGED notSession

\* stop(): -> Stopped, the PTY is shut down and removed from the PtyManager,
\* every request queued or in flight fails with Stopped
Stop ==
    /\ s_state' = "Stopped"
    /\ s_pty' = "none"
    /\ s_req' = FailPending(s_req)
    /\ s_queue' = <<>>
    /\ s_busy' = 0
    /\ s_manager' = FALSE
    /\ s_wrote' = <<>>
    /\ s_signal' = FALSE
    /\ s_elapsed' = 0
    /\ UNCHANGED <<s_handle, s_starts>>
    /\ UNCHANGED notSession

InitSession ==
    /\ s_state = "Stopped"
    /\ s_busy = 0
    /\ s_queue = <<>>
    /\ s_req = [r \in Reqs |-> "new"]
    /\ s_pty = "none"
    /\ s_manager = FALSE
    /\ s_wrote = <<>>
    /\ s_starts = 0
    /\ s_handle = 0
    /\ s_signal = FALSE
    /\ s_elapsed = 0

NextSession ==
    \/ StartBegin
    \/ StartNoop
    \/ StartReady
    \/ StartFail
    \/ \E r \in Reqs : SendEnqueue(r)
    \/ \E r \in Reqs : QueueTimeout(r)
    \/ Dispatch
    \/ ChildSignals
    \/ PollTick
    \/ Complete
    \/ StuckDetect
    \/ StuckRecover
    \/ DeadlineTimeout
    \/ Interrupt
    \/ Stop

(***************************************************************************)
(* Claims about the session                                                *)
(***************************************************************************)
\* C3: in every reachable state of a session at most one request is Busy,
\* and it is the request the state Busy(request_id) names.
C3_AtMostOneBusy ==
    /\ Cardinality({r \in Reqs : s_req[r] = "busy"}) <= 1
    /\ \A r \in Reqs : s_req[r] = "busy" => (s_state = "Busy" /\ s_busy = r)

\* C3 witness: one request is Busy while two others wait in the queue.
C3_Witness ==
    /\ s_state = "Busy"
    /\ s_req[s_busy] = "busy"
    /\ Len(s_queue) >= 2

\* C4: a request makes the step from waiting to Busy only when no request
\* enqueued before it is still waiting in the queue.
C4_FifoDispatch ==
    [][\A r \in Reqs :
          (s_req[r] = "queued" /\ s_req'[r] = "busy") =>
              \A q \in Reqs : q < r => s_req[q] # "queued"]_vars

\* C4 witness: the second request is Busy after the first got its reply,
\* while the third waits.
C4_Witness ==
    /\ s_req[1] = "reply"
    /\ s_req[2] = "busy"
    /\ s_req[3] = "queued"

\* C19: a step of stop() leaves the session Stopped with no PTY and no handle
\* in the PtyManager, every request that was queued or in flight failed with
\* Stopped and none pending; while the session is Stopped no request is in
\* flight, a request is dispatched only in Ready, and the only way out of
\* Stopped is start().
C19_StopTearsDown ==
    /\ [][Stop =>
            /\ s_state' = "Stopped"
            /\ s_pty' = "none"
            /\ ~s_manager'
            /\ \A r \in Reqs :
                  /\ s_req[r] \in {"queued", "busy"} => s_req'[r] = "Stopped"
                  /\ s_req'[r] \notin {"queued", "busy"}
            /\ s_queue' = <<>>]_vars
    /\ [](s_state = "Stopped" =>
            /\ s_busy = 0
            /\ \A r \in Reqs : s_req[r] # "busy"
            /\ s_pty = "none"
            /\ ~s_manager)
    /\ [][\A r \in Reqs :
            (s_req[r] # "busy" /\ s_req'[r] = "busy") => s_state = "Ready"]_vars
    /\ [][(s_state = "Stopped" /\ s_state' # "Stopped") =>
            (s_state' = "Starting" /\ s_pty' = "live")]_vars

\* C19 witness: the session was stopped with one request in flight and one
\* queued, after an earlier request got its reply.
C19_Witness ==
    /\ s_state = "Stopped"
    /\ s_pty = "none"
    /\ s_req[1] = "reply"
    /\ s_req[2] = "Stopped"
    /\ s_req[3] = "Stopped"

\* C20: the step that fails a request with Stuck writes the interrupt bytes
\* and enters Stuck; the session leaves Stuck, and unless it is stopped or
\* started anew it leaves it for Ready; it does not remain Busy; and in Ready
\* the request at the head of the queue does not stay queued.
C20_StuckRecovers ==
    /\ [][\A r \in Reqs :
            (s_req[r] = "busy" /\ s_req'[r] = "Stuck") =>
                /\ s_state' = "Stuck"
                /\ s_wrote' = Append(s_wrote, "interrupt")]_vars
    /\ [][(s_state = "Stuck" /\ s_state' \notin {"Stuck", "Stopped", "Starting"}) =>
            s_state' = "Ready"]_vars
    /\ (s_state = "Stuck") ~> (s_state # "Stuck")
    /\ (s_state = "Busy") ~> (s_state # "Busy")
    /\ \A r \in Reqs :
          (s_state = "Ready" /\ s_queue # <<>> /\ Head(s_queue) = r)
              ~> (s_req[r] # "queued")

\* C20 witness: the first request failed with Stuck and the second, queued
\* behind it, is now in flight.
C20_Witness ==
    /\ s_req[1] = "Stuck"
    /\ s_state = "Busy"
    /\ s_busy = 2
    /\ s_wrote = <<"prompt">>

\* a step in which a request fails with Timeout
TimeoutStep == \E r \in Reqs : s_req[r] = "busy" /\ s_req'[r] = "Timeout"

\* a step that shuts the session's PTY down, or takes the handle the
\* PtyManager indexes out of it (by remove, or by create putting another
\* handle in its place)
TornDown ==
    \/ s_pty = "live" /\ s_pty' = "none"
    \/ s_manager /\ ~s_manager'
    \/ s_manager /\ s_handle' # s_handle

\* the deadline path: the request fails with Timeout, interrupt bytes are
\* written, the PTY stays alive and its handle stays indexed
TimeoutKeepsPty ==
    TimeoutStep =>
        /\ s_wrote' = Append(s_wrote, "interrupt")
        /\ s_pty = "live" /\ s_pty' = "live"
        /\ s_manager /\ s_manager'
        /\ s_handle' = s_handle

\* C21 (as stated): the deadline path keeps the PTY, and no step but one of
\* stop() shuts a PTY down or takes its handle out of the PtyManager.
C21_OnlyStopTearsDown ==
    [][TimeoutKeepsPty /\ (TornDown => Stop)]_vars

\* C21 (amended): the deadline path keeps the PTY, and a PTY is shut down or
\* its handle taken out of the PtyManager only by stop() or by a start() that
\* spawns anew while the handle of an earlier start is still indexed.
C21_OnlyStopOrRespawnTearsDown ==
    [][TimeoutKeepsPty
       /\ (TornDown => (Stop \/ (StartBegin /\ s_manager)))]_vars

\* C21 witness: a request failed with Timeout on the PTY of a second start,
\* which is alive and indexed.
C21_Witness ==
    /\ \E r \in Reqs : s_req[r] = "Timeout"
    /\ s_state = "Ready"
    /\ s_pty = "live"
    /\ s_manager
    /\ s_handle = 2
    /\ s_wrote = <<"prompt", "interrupt">>

\* C22: a start() call made while the session is Ready or Busy changes
\* nothing: no handle is created, the state, the request in flight, the
\* queue and the PTY are as before; so for every call of a run of calls.
C22_StartIdempotent ==
    [][(s_starts' = s_starts + 1 /\ s_state \in {"Ready", "Busy"}) =>
          UNCHANGED <<s_state, s_busy, s_queue, s_req, s_pty, s_manager,
                      s_handle, s_wrote, s_signal, s_elapsed>>]_vars

\* C22 witness: two further start() calls were made after the one that
\* spawned the child, and the session is Busy with a request waiting.
C22_Witness ==
    /\ s_starts = MaxStarts
    /\ s_handle = 1
    /\ s_state = "Busy"
    /\ s_req[s_busy] = "busy"
    /\ s_queue # <<>>

\* what a send call returns: a reply or an error of the taxonomy
SendResults == {"reply", "ProviderUnavailable"} \cup SessionErrors

StuckOnlyAfterDuration ==
    (s_state = "Busy" /\ s_state' = "Stuck") =>
        (~s_signal /\ s_elapsed > max_stuck_duration)

\* C24 (as stated): every Busy -> Ready step is made with a completion of
\* the request in flight matched, and every Busy -> Stuck step after
\* max_stuck_duration without one.
C24_ReadyOnlyOnCompletion ==
    [][/\ (s_state = "Busy" /\ s_state' = "Ready") => s_signal
       /\ StuckOnlyAfterDuration]_vars

\* C24 (amended): a Busy -> Ready step either delivers the reply of the
\* request in flight, with its completion matched, or fails that request
\* with Timeout or Interrupted; a request gets a reply only on a match; and
\* every Busy -> Stuck step is made after max_stuck_duration without one.
C24_ReadyOnCompletionTimeoutOrInterrupt ==
    [][/\ (s_state = "Busy" /\ s_state' = "Ready") =>
             \/ s_signal /\ s_req'[s_busy] = "reply"
             \/ s_req'[s_busy] \in {"Timeout", "Interrupted"}
       /\ \A r \in Reqs :
             (s_req[r] = "busy" /\ s_req'[r] = "reply") => s_signal
       /\ StuckOnlyAfterDuration]_vars

\* C24 witness: one request got its reply, one failed with Stuck and one was
\* interrupted.
C24_Witness ==
    /\ s_state = "Ready"
    /\ \E r \in Reqs : s_req[r] = "reply"
    /\ \E r \in Reqs : s_req[r] = "Stuck"
    /\ \E r \in Reqs : s_req[r] = "Interrupted"

(***************************************************************************)
(* Log providers: session files written by the assistants, and the three   *)
(* providers that harvest replies from them.  One provider object and the  *)
(* directory it watches are modelled; a file is append-only, its mtime is  *)
(* the time of the last create, append or touch.  A message carries a      *)
(* role, a content and the time it was written; the bytes of a JSONL line  *)
(* are counted as the content plus the terminating line feed.              *)
(***************************************************************************)
Files == {"session-1", "session-2"}

Roles == {"user", "assistant", "model"}

\* the messages an assistant may append: role, content, and whether the
\* message carries a timestamp that parses (one that does not is read with
\* the sentinel timestamp)
MsgKinds ==
    {[role |-> "user", content |-> <<"r">>, stamped |-> TRUE],
     [role |-> "user", content |-> <<"r">>, stamped |-> FALSE],
     [role |-> "assistant", content |-> <<"r">>, stamped |-> TRUE],
     [role |-> "assistant", content |-> <<"r">>, stamped |-> FALSE],
     [role |-> "assistant", content |-> <<>>, stamped |-> TRUE],
     [role |-> "assistant", content |-> <<"SP">>, stamped |-> TRUE],
     [role |-> "model", content |-> <<"r">>, stamped |-> TRUE]}

\* DateTime::<Utc>::from(SystemTime::UNIX_EPOCH): the sentinel timestamp
default_timestamp == 0

ExistingFiles(files) == {f \in Files : files[f].exists}

\* the most recently modified session file of the directory, if any
LatestSession(files) ==
    IF ExistingFiles(files) = {} THEN <<>>
    ELSE <<CHOOSE f \in ExistingFiles(files) :
             \A g \in ExistingFiles(files) : files[g].mtime <= files[f].mtime>>

\* CodexLogProvider::find_latest_session_file
codex_find_latest_session_file(files) == LatestSession(files)

\* OpenCodeLogProvider::find_latest_session_file
opencode_find_latest_session_file(files) == LatestSession(files)

\* GeminiLogProvider::find_latest_chat_file
find_latest_chat_file(files) == LatestSession(files)

\* GeminiLogProvider::scan_latest_session_file_in_chats_dir
scan_latest_session_file_in_chats_dir(files) == LatestSession(files)

MaxOf(S) == CHOOSE x \in S : \A y \in S : y <= x

LogEntry(e, offset) ==
    [content |-> e.content, offset |-> offset, timestamp |-> e.ts]

\* an element of a session file is usable when it has a role (for Gemini a
\* type) and a content that are strings

\* CodexLogProvider::parse_jsonl_entry yields a record for the line
parse_jsonl_entry(e) == e.usable

\* OpenCodeLogProvider::parse_session_json: the usable elements, in order
parse_session_json(msgs) == SelectSeq(msgs, LAMBDA m : m.usable)

\* GeminiLogProvider::parse_chat_json: the usable elements, in order
parse_chat_json(msgs) == SelectSeq(msgs, LAMBDA m : m.usable)

\* ---- JSONL provider (codex.rs) ----
LineLen(e) == Len(e.content) + 1

RECURSIVE RecordEnd(_, _)
\* the byte position just after the i-th line
RecordEnd(entries, i) ==
    IF i = 0 THEN 0 ELSE RecordEnd(entries, i - 1) + LineLen(entries[i])

RecordStart(entries, i) == RecordEnd(entries, i - 1)

FileLen(entries) == RecordEnd(entries, Len(entries))

\* a plausible slip: the offset returned is the position where the record
\* starts
CodexGetLatestReplyStartOffset(files, since_offset) ==
    LET latest == codex_find_latest_session_file(files)
    IN  IF latest = <<>> THEN <<>>
        ELSE LET entries == files[latest[1]].msgs
                 hits == {i \in 1..Len(entries) :
                            /\ RecordStart(entries, i) >= since_offset
                            /\ parse_jsonl_entry(entries[i])
                            /\ entries[i].role = "assistant"}
             IN  IF hits = {} THEN <<>>
                 ELSE LET i == MaxOf(hits)
                      IN  <<[entry |-> LogEntry(entries[i], RecordStart(entries, i)),
                             total |-> RecordStart(entries, i),
                             src |-> latest[1], idx |-> i]>>

\* seek to since_offset and read lines to the end of the file: a line read
\* from the middle of a record does not parse; the last assistant record
\* wins and its end position is the offset
codex_get_latest_reply(files, since_offset) ==
    LET latest == codex_find_latest_session_file(files)
    IN  IF latest = <<>> THEN <<>>
        ELSE LET entries == files[latest[1]].msgs
                 hits == {i \in 1..Len(entries) :
                            /\ RecordStart(entries, i) >= since_offset
                            /\ parse_jsonl_entry(entries[i])
                            /\ entries[i].role = "assistant"}
             IN  IF hits = {} THEN <<>>
                 ELSE LET i == MaxOf(hits)
                      IN  <<[entry |-> LogEntry(entries[i], RecordEnd(entries, i)),
                             total |-> RecordEnd(entries, i),
                             src |-> latest[1], idx |-> i]>>

\* ---- whole-file JSON provider (opencode.rs) ----
opencode_get_latest_reply(files, since_offset) ==
    LET latest == opencode_find_latest_session_file(files)
    IN  IF latest = <<>> THEN <<>>
        ELSE LET entries == parse_session_json(files[latest[1]].msgs)
                 hits == {i \in 1..Len(entries) :
                            /\ i - 1 >= since_offset
                            /\ entries[i].role = "assistant"}
             IN  IF hits = {} THEN <<>>
                 ELSE LET i == MaxOf(hits)
                      IN  <<[entry |-> LogEntry(entries[i], i),
                             total |-> Len(entries),
                             src |-> latest[1], idx |-> i]>>

\* ---- whole-file JSON provider with session locking (gemini.rs) ----
is_assistant_role(role) == role \in {"assistant", "model", "gemini"}

MinOf(S) == CHOOSE x \in S : \A y \in S : x <= y

\* a plausible slip: the first qualifying entry at index >= since_offset
FindAssistantReplyFirst(entries, since_offset) ==
    LET start == Min(since_offset, Len(entries))
        hits == {i \in (start + 1)..Len(entries) :
                   /\ is_assistant_role(entries[i].role)
                   /\ Trim(entries[i].content) # <<>>}
    IN  IF hits = {} THEN <<>>
        ELSE <<[entry |-> LogEntry(entries[MinOf(hits)], MinOf(hits)),
                idx |-> MinOf(hits)]>>

\* the last qualifying entry at index >= since_offset
find_assistant_reply(entries, since_offset) ==
    LET start == Min(since_offset, Len(entries))
        hits == {i \in (start + 1)..Len(entries) :
                   /\ is_assistant_role(entries[i].role)
                   /\ Trim(entries[i].content) # <<>>}
    IN  IF hits = {} THEN <<>>
        ELSE <<[entry |-> LogEntry(entries[MaxOf(hits)], MaxOf(hits)),
                idx |-> MaxOf(hits)]>>

\* the last qualifying entry stamped after the baseline
find_assistant_reply_by_timestamp(entries, baseline_timestamp) ==
    LET hits == {i \in 1..Len(entries) :
                   /\ is_assistant_role(entries[i].role)
                   /\ entries[i].ts > baseline_timestamp
                   /\ Trim(entries[i].content) # <<>>}
    IN  IF hits = {} THEN <<>>
        ELSE <<[entry |-> LogEntry(entries[MaxOf(hits)], MaxOf(hits)),
                idx |-> MaxOf(hits)]>>

\* a plausible slip: the rollover scan searches by offset only
ScanNewerSessionOffsetOnly(files, locked_file, since_offset, baseline_timestamp) ==
    LET latest == scan_latest_session_file_in_chats_dir(files)
    IN  IF latest = <<>> \/ latest = <<locked_file>> THEN <<>>
        ELSE LET entries == parse_chat_json(files[latest[1]].msgs)
                 found == find_assistant_reply(entries, since_offset)
             IN  IF found = <<>> THEN <<>>
                 ELSE <<[entry |-> found[1].entry, total |-> Len(entries),
                         src |-> latest[1], idx |-> found[1].idx]>>

\* the rollover scan: the latest file of the directory, when it is not the
\* locked one, is searched by offset and then by timestamp
scan_newer_session(files, locked_file, since_offset, baseline_timestamp) ==
    LET latest == scan_latest_session_file_in_chats_dir(files)
    IN  IF latest = <<>> \/ latest = <<locked_file>> THEN <<>>
        ELSE LET entries == parse_chat_json(files[latest[1]].msgs)
                 byOffset == find_assistant_reply(entries, since_offset)
                 byTime == find_assistant_reply_by_timestamp(entries,
                                                             baseline_timestamp)
                 found == IF byOffset # <<>> THEN byOffset
                          ELSE IF baseline_timestamp # default_timestamp
                               THEN byTime
                               ELSE <<>>
             IN  IF found = <<>> THEN <<>>
                 ELSE <<[entry |-> found[1].entry, total |-> Len(entries),
                         src |-> latest[1], idx |-> found[1].idx]>>

gemini_get_latest_reply(files, locked, since_offset) ==
    LET chat == IF locked # <<>> THEN <<locked[1].path>>
                ELSE find_latest_chat_file(files)
    IN  IF chat = <<>> THEN <<>>
        ELSE LET entries == parse_chat_json(files[chat[1]].msgs)
                 here == find_assistant_reply(entries, since_offset)
             IN  IF here # <<>>
                 THEN <<[entry |-> here[1].entry, total |-> Len(entries),
                         src |-> chat[1], idx |-> here[1].idx]>>
                 ELSE IF locked # <<>>
                      THEN scan_newer_session(files, chat[1], since_offset,
                                              locked[1].baseline_timestamp)
                      ELSE <<>>

\* the latest timestamp of the file that is not the sentinel
BaselineTimestamp(entries) ==
    LET stamped == {i \in 1..Len(entries) : entries[i].ts # default_timestamp}
    IN  IF stamped = {} THEN default_timestamp ELSE entries[MaxOf(stamped)].ts

\* ---- the directory ----
\* the largest cursor worth asking for: one past the longest file
MaxSince(files) ==
    MaxOf({0} \cup {FileLen(files[f].msgs) : f \in ExistingFiles(files)}) + 1

NewProvider(p) ==
    /\ l_provider = "none"
    /\ l_provider' = p
    /\ UNCHANGED <<l_files, l_clock, l_locked, l_session, l_at_lock,
                   l_current_offset, l_reply, l_lock_ret>>
    /\ UNCHANGED notLog

\* an assistant starts a session file
CreateFile(f) ==
    /\ l_provider # "none"
    /\ l_clock < MaxLogOps
    /\ ~l_files[f].exists
    /\ l_clock' = l_clock + 1
    /\ l_files' = [l_files EXCEPT ![f] = [exists |-> TRUE, mtime |-> l_clock',
                                          msgs |-> <<>>]]
    /\ l_reply' = <<>>
    /\ UNCHANGED <<l_provider, l_locked, l_session, l_at_lock, l_current_offset,
                   l_lock_ret>>
    /\ UNCHANGED notLog

\* an assistant appends a message to a session file
AppendMessage(f, k) ==
    /\ l_clock < MaxLogOps
    /\ l_files[f].exists
    /\ l_clock' = l_clock + 1
    /\ l_files' = [l_files EXCEPT
                     ![f].mtime = l_clock',
                     ![f].msgs = Append(@, [role |-> k.role,
                                            content |-> k.content,
                                            usable |-> TRUE,
                                            ts |-> IF k.stamped THEN l_clock'
                                                   ELSE default_timestamp])]
    /\ l_reply' = <<>>
    /\ UNCHANGED <<l_provider, l_locked, l_session, l_at_lock, l_current_offset,
                   l_lock_ret>>
    /\ UNCHANGED notLog

\* the mtime of a session file changes, its content does not
TouchFile(f) ==
    /\ l_clock < MaxLogOps
    /\ l_files[f].exists
    /\ l_clock' = l_clock + 1
    /\ l_files' = [l_files EXCEPT ![f].mtime = l_clock']
    /\ l_reply' = <<>>
    /\ UNCHANGED <<l_provider, l_locked, l_session, l_at_lock, l_current_offset,
                   l_lock_ret>>
    /\ UNCHANGED notLog

StoreReply(since, r) ==
    /\ l_reply' = <<[since |-> since,
                     entry |-> IF r = <<>> THEN <<>> ELSE <<r[1].entry>>,
                     src |-> IF r = <<>> THEN "" ELSE r[1].src,
                     idx |-> IF r = <<>> THEN 0 ELSE r[1].idx]>>
    /\ l_current_offset' = IF r = <<>> THEN l_current_offset ELSE r[1].total
    /\ UNCHANGED <<l_provider, l_files, l_clock, l_locked, l_session, l_at_lock,
                   l_lock_ret>>
    /\ UNCHANGED notLog

CodexGetLatestReply(since) ==
    /\ l_provider = "codex"
    /\ since <= MaxSince(l_files)
    /\ StoreReply(since, codex_get_latest_reply(l_files, since))

OpenCodeGetLatestReply(since) ==
    /\ l_provider = "opencode"
    /\ since <= MaxSince(l_files)
    /\ StoreReply(since, opencode_get_latest_reply(l_files, since))

GeminiGetLatestReply(since) ==
    /\ l_provider = "gemini"
    /\ since <= MaxSince(l_files)
    /\ StoreReply(since, gemini_get_latest_reply(l_files, l_locked, since))

\* GeminiLogProvider::lock_session: pins the latest file; l_at_lock keeps
\* how many messages each file held at that moment
LockSession ==
    /\ l_provider = "gemini"
    /\ find_latest_chat_file(l_files) # <<>>
    /\ LET chat_file == find_latest_chat_file(l_files)[1]
           entries == parse_chat_json(l_files[chat_file].msgs)
       IN  /\ l_locked' = <<[path |-> chat_file,
                             baseline_timestamp |-> BaselineTimestamp(entries)]>>
           /\ l_session' = <<[file_path |-> chat_file,
                              baseline_offset |-> Len(entries)]>>
    /\ l_at_lock' = [f \in Files |-> Len(l_files[f].msgs)]
    /\ l_reply' = <<>>
    /\ l_lock_ret' = "Some"
    /\ UNCHANGED <<l_provider, l_files, l_clock, l_current_offset>>
    /\ UNCHANGED notLog

\* a plausible slip: a failed lock_session drops the pin it found
LockedAfterNoneCleared(locked) == <<>>

\* the two `?` returns of lock_session come before the store into
\* locked_session: the slot keeps what it held
LockedAfterNone(locked) == locked

\* GeminiLogProvider::lock_session returning None: find_latest_chat_file
\* found no file, or read_to_string of the file found failed
LockSessionNone(readable) ==
    /\ l_provider = "gemini"
    /\ find_latest_chat_file(l_files) = <<>> \/ ~readable
    /\ l_locked' = LockedAfterNone(l_locked)
    /\ l_lock_ret' = "None"
    /\ UNCHANGED <<l_provider, l_files, l_clock, l_session, l_at_lock,
                   l_current_offset, l_reply>>
    /\ UNCHANGED notLog

\* a plausible slip: unlock_session leaves the pin in place
AfterUnlockKeep(locked) == locked

\* *locked = None
AfterUnlock(locked) == <<>>

\* GeminiLogProvider::unlock_session
UnlockSession ==
    /\ l_provider = "gemini"
    /\ l_locked' = AfterUnlock(l_locked)
    /\ l_session' = <<>>
    /\ l_reply' = <<>>
    /\ UNCHANGED <<l_provider, l_files, l_clock, l_at_lock, l_current_offset,
                   l_lock_ret>>
    /\ UNCHANGED notLog

InitLog ==
    /\ l_provider = "none"
    /\ l_files = [f \in Files |-> [exists |-> FALSE, mtime |-> 0, msgs |-> <<>>]]
    /\ l_clock = 0
    /\ l_locked = <<>>
    /\ l_session = <<>>
    /\ l_at_lock = [f \in Files |-> 0]
    /\ l_current_offset = 0
    /\ l_reply = <<>>
    /\ l_lock_ret = "unset"

NextLog ==
    \/ \E p \in {"codex", "opencode", "gemini"} : NewProvider(p)
    \/ \E f \in Files : CreateFile(f)
    \/ \E f \in Files, k \in MsgKinds : AppendMessage(f, k)
    \/ \E f \in Files : TouchFile(f)
    \/ \E since \in 0..(2 * MaxLogOps) : CodexGetLatestReply(since)
    \/ \E since \in 0..(2 * MaxLogOps) : OpenCodeGetLatestReply(since)
    \/ \E since \in 0..(2 * MaxLogOps) : GeminiGetLatestReply(since)
    \/ LockSession
    \/ \E readable \in BOOLEAN : LockSessionNone(readable)
    \/ UnlockSession

(***************************************************************************)
(* Claims about the log providers                                          *)
(***************************************************************************)
\* a message qualifies when its role is an assistant role of the provider
\* and its content is not empty (for the JSONL provider the role alone)
Qualifies(p, e) ==
    CASE p = "codex" -> e.role = "assistant"
      [] p = "opencode" -> e.role = "assistant" /\ e.content # <<>>
      [] OTHER -> is_assistant_role(e.role) /\ e.content # <<>>

\* the i-th message of a file lies at or after the cursor: its line starts
\* at byte since or later (JSONL), its index is since or more (whole-file)
AtOrAfter(p, entries, i, since) ==
    IF p = "codex" THEN RecordStart(entries, i) >= since ELSE i - 1 >= since

\* C9: the reply of the last poll is None whenever no session file holds a
\* qualifying message at or after since, and a returned entry is a
\* qualifying message at or after since.
C9_ReplyQualifiesAtOrAfterSince ==
    l_reply # <<>> =>
        LET r == l_reply[1]
            some == \E f \in ExistingFiles(l_files) :
                      \E i \in 1..Len(l_files[f].msgs) :
                         /\ Qualifies(l_provider, l_files[f].msgs[i])
                         /\ AtOrAfter(l_provider, l_files[f].msgs, i, r.since)
        IN  /\ ~some => r.entry = <<>>
            /\ r.entry # <<>> =>
                  /\ Qualifies(l_provider, l_files[r.src].msgs[r.idx])
                  /\ AtOrAfter(l_provider, l_files[r.src].msgs, r.idx, r.since)

\* C10: while the session is locked, a poll with the baseline offset never
\* returns an entry a session file already held when the lock was taken.
C10_NoStaleReplyWhileLocked ==
    (/\ l_reply # <<>>
     /\ l_locked # <<>>
     /\ l_reply[1].since = l_session[1].baseline_offset
     /\ l_reply[1].entry # <<>>)
        => l_reply[1].idx > l_at_lock[l_reply[1].src]

\* an assistant record with content that is not blank
ReplyRecord(e) == is_assistant_role(e.role) /\ Trim(e.content) # <<>>

\* the positions of the reply records of a file at index >= since
RepliesFrom(entries, since) ==
    {i \in 1..Len(entries) : i - 1 >= since /\ ReplyRecord(entries[i])}

\* the positions of the reply records of a file stamped later than T
RepliesAfter(entries, T) ==
    {i \in 1..Len(entries) : ReplyRecord(entries[i]) /\ entries[i].ts > T}

\* the rollover case, just polled: the provider is locked, the locked file
\* got no new record and offers nothing at the cursor of the poll, and the
\* most recently modified file is another one that held no record when the
\* lock was taken
RolloverPolled ==
    /\ l_provider = "gemini"
    /\ l_locked # <<>>
    /\ l_reply # <<>>
    /\ LET L == l_locked[1].path
           N == LatestSession(l_files)[1]
       IN  /\ N # L
           /\ l_at_lock[N] = 0
           /\ Len(l_files[L].msgs) = l_at_lock[L]
           /\ l_reply[1].since <= Len(l_files[L].msgs)
           /\ RepliesFrom(l_files[L].msgs, l_reply[1].since) = {}

\* C11 as stated: in the rollover case, when the newer file contains an
\* assistant record (with content) stamped later than the baseline
\* timestamp, the poll returns a record of the newer file, whatever the
\* cursor.
C11_RolloverReturnsRecord ==
    RolloverPolled =>
        LET N == LatestSession(l_files)[1]
            T == l_locked[1].baseline_timestamp
            r == l_reply[1]
        IN  RepliesAfter(l_files[N].msgs, T) # {}
            => /\ r.entry # <<>>
               /\ r.src = N

\* C11 amended: in the rollover case, when the newer file contains an
\* assistant record with non-blank content that lies at or after the cursor,
\* or that is stamped later than a baseline timestamp which is not the
\* sentinel, the poll returns a record of the newer file: the last reply
\* record at or after the cursor if there is one, otherwise the last reply
\* record stamped later than the baseline.
C11_RolloverReturnsLastReply ==
    RolloverPolled =>
        LET N == LatestSession(l_files)[1]
            T == l_locked[1].baseline_timestamp
            r == l_reply[1]
            byOffset == RepliesFrom(l_files[N].msgs, r.since)
            byTime == RepliesAfter(l_files[N].msgs, T)
        IN  (byOffset # {} \/ (T # default_timestamp /\ byTime # {}))
            => /\ r.entry # <<>>
               /\ r.src = N
               /\ r.idx = IF byOffset # {} THEN MaxOf(byOffset) ELSE MaxOf(byTime)
               /\ r.entry[1].content = l_files[N].msgs[r.idx].content

\* C11 witness: a rollover poll whose cursor lies past the record of the
\* newer file, answered from the newer file by timestamp.
C11_Witness ==
    /\ RolloverPolled
    /\ l_reply[1].entry # <<>>
    /\ l_reply[1].src # l_locked[1].path
    /\ l_reply[1].idx <= l_reply[1].since
    /\ l_reply[1].since > 0

\* the positions of the assistant records of a JSONL file whose line starts
\* at byte since or later
AssistantLinesFrom(entries, since) ==
    {i \in 1..Len(entries) :
       RecordStart(entries, i) >= since /\ entries[i].role = "assistant"}

\* C27: a poll of the JSONL provider returns the last assistant record at or
\* after since_offset, None when there is none, with the offset just after
\* that record's line, which is greater than since_offset; and the next
\* poll, made with the returned offset on the unchanged file, returns None.
C27_JsonlCursor ==
    /\ []((l_provider = "codex" /\ l_reply # <<>>) =>
            LET r == l_reply[1]
                entries == l_files[LatestSession(l_files)[1]].msgs
                hits == AssistantLinesFrom(entries, r.since)
            IN  IF LatestSession(l_files) = <<>> \/ hits = {}
                THEN r.entry = <<>>
                ELSE /\ r.entry # <<>>
                     /\ r.idx = MaxOf(hits)
                     /\ r.entry[1].content = entries[MaxOf(hits)].content
                     /\ r.entry[1].offset = RecordEnd(entries, MaxOf(hits))
                     /\ r.entry[1].offset > r.since)
    /\ [][(/\ l_provider = "codex"
           /\ l_reply # <<>> /\ l_reply' # <<>>
           /\ l_reply[1].entry # <<>>
           /\ l_files' = l_files
           /\ l_reply'[1].since = l_reply[1].entry[1].offset)
              => l_reply'[1].entry = <<>>]_vars

\* C27 witness: a poll made with the offset of the assistant record that
\* ends the file, which is not the first record, returned None.
C27_Witness ==
    /\ l_provider = "codex"
    /\ l_reply # <<>>
    /\ l_reply[1].entry = <<>>
    /\ LatestSession(l_files) # <<>>
    /\ LET entries == l_files[LatestSession(l_files)[1]].msgs
       IN  /\ Len(entries) >= 2
           /\ entries[Len(entries)].role = "assistant"
           /\ l_reply[1].since = FileLen(entries)

\* the positions of the entries of the locked file that qualify, lie at
\* index >= since and are stamped later than the baseline timestamp
FreshInLocked(entries, since, T) ==
    {i \in RepliesFrom(entries, since) : entries[i].ts > T}

\* C28: a poll made while a session is locked returns an entry of the
\* locked file only if that entry qualifies, lies at index >= since_offset
\* and is stamped later than baseline_timestamp; when the locked file holds
\* no such entry, the reply is that of the rollover scan.
C28_LockedFileHonoursBaseline ==
    (l_provider = "gemini" /\ l_locked # <<>> /\ l_reply # <<>>) =>
        LET r == l_reply[1]
            L == l_locked[1].path
            T == l_locked[1].baseline_timestamp
            entries == parse_chat_json(l_files[L].msgs)
            scan == scan_newer_session(l_files, L, r.since, T)
        IN  /\ (r.entry # <<>> /\ r.src = L) =>
                  r.idx \in FreshInLocked(entries, r.since, T)
            /\ FreshInLocked(entries, r.since, T) = {} =>
                  IF scan = <<>> THEN r.entry = <<>>
                  ELSE r.entry = <<scan[1].entry>> /\ r.src = scan[1].src

\* a poll made while locked was answered from another file than the locked
\* one: the rollover scan found the entry
AnsweredByRollover ==
    /\ l_provider = "gemini"
    /\ l_locked # <<>>
    /\ l_reply # <<>>
    /\ l_reply[1].entry # <<>>
    /\ l_reply[1].src # l_locked[1].path

\* the entries of the newer file the rollover scan matches: those at or
\* after the cursor if there are any, otherwise those stamped later than
\* the baseline
RolloverMatches ==
    LET r == l_reply[1]
        entries == parse_chat_json(l_files[r.src].msgs)
        byOffset == RepliesFrom(entries, r.since)
    IN  IF byOffset # {} THEN byOffset
        ELSE RepliesAfter(entries, l_locked[1].baseline_timestamp)

\* C29 (as stated): the entry the rollover scan returns is the first of the
\* entries of the newer file that it matches.
C29_RolloverReturnsFirst ==
    AnsweredByRollover =>
        /\ RolloverMatches # {}
        /\ l_reply[1].idx = MinOf(RolloverMatches)

\* C29 (amended): the entry the rollover scan returns is the last of the
\* entries of the newer file that it matches.
C29_RolloverReturnsLast ==
    AnsweredByRollover =>
        /\ RolloverMatches # {}
        /\ l_reply[1].idx = MaxOf(RolloverMatches)
        /\ l_reply[1].entry[1].offset = MaxOf(RolloverMatches)

\* C29 witness: the rollover scan answered from a newer file that holds two
\* entries it matches.
C29_Witness ==
    /\ AnsweredByRollover
    /\ Cardinality(RolloverMatches) >= 2
    /\ l_at_lock[l_reply[1].src] = 0

\* C30: unlock_session leaves no session locked, whether one was locked or
\* not, and touches nothing else of the provider; a poll made with no
\* session locked is answered from the most recently modified session file
\* alone (the last qualifying entry at index >= since_offset, None when it
\* has none, whatever the other files hold); and lock_session pins the file
\* that is the most recently modified when it is called.
C30_UnlockClearsPin ==
    /\ [][UnlockSession =>
            /\ l_locked' = <<>>
            /\ UNCHANGED <<l_provider, l_files, l_current_offset>>]_vars
    /\ []((l_provider = "gemini" /\ l_locked = <<>> /\ l_reply # <<>>) =>
            LET r == l_reply[1]
                latest == LatestSession(l_files)
                entries == parse_chat_json(l_files[latest[1]].msgs)
            IN  IF latest = <<>> \/ RepliesFrom(entries, r.since) = {}
                THEN r.entry = <<>>
                ELSE /\ r.entry # <<>>
                     /\ r.src = latest[1]
                     /\ r.idx = MaxOf(RepliesFrom(entries, r.since)))
    /\ [][(l_locked' # <<>> /\ l_locked' # l_locked) =>
            /\ LatestSession(l_files) # <<>>
            /\ l_locked'[1].path = LatestSession(l_files)[1]]_vars

\* C30 witness: a session was locked and unlocked again, and a poll made
\* after that was answered from a file created after the lock was taken.
C30_Witness ==
    /\ l_provider = "gemini"
    /\ l_locked = <<>>
    /\ \E f \in Files : l_at_lock[f] > 0
    /\ l_reply # <<>>
    /\ l_reply[1].entry # <<>>
    /\ l_at_lock[l_reply[1].src] = 0

\* C31: when lock_session returns None (no session file was found, or the
\* file found could not be read) the locked-session slot is left exactly as
\* it was: a pin set earlier stays in force and no new pin is created; the
\* provider's files and cursor are untouched as well.
C31_FailedLockKeepsSlot ==
    [][(\E readable \in BOOLEAN : LockSessionNone(readable)) =>
        /\ l_lock_ret' = "None"
        /\ l_locked' = l_locked
        /\ UNCHANGED <<l_provider, l_files, l_current_offset>>]_vars

\* C31 witness: lock_session returned None while an earlier pin was in
\* force, and the pin is still there.
C31_Witness ==
    /\ l_provider = "gemini"
    /\ l_lock_ret = "None"
    /\ l_locked # <<>>
    /\ l_session # <<>>
    /\ l_locked[1].path = l_session[1].file_path

(***************************************************************************)
(* PathMapper: conversion between Windows and WSL paths.  A path is a      *)
(* sequence of characters; "BSL" is the backslash.                         *)
(***************************************************************************)
DriveLetters == {"c", "C"}

to_ascii_lowercase(ch) == IF ch = "C" THEN "c" ELSE IF ch = "D" THEN "d" ELSE ch

to_ascii_uppercase(ch) == IF ch = "c" THEN "C" ELSE IF ch = "d" THEN "D" ELSE ch

\* str::replace(from, to) for single characters
ReplaceChar(s, from, to) ==
    [i \in 1..Len(s) |-> IF s[i] = from THEN to ELSE s[i]]

MNT_PREFIX == <<"/", "m", "n", "t", "/">>

\* a plausible slip: the separators of the rest are left as they are
ToWslPathKeepSeparators(path) ==
    IF Len(path) >= 2 /\ path[2] = ":"
    THEN MNT_PREFIX \o <<to_ascii_lowercase(path[1])>>
                    \o SubSeq(path, 3, Len(path))
    ELSE ReplaceChar(path, "BSL", "/")

\* C:\... becomes /mnt/c/...
to_wsl_path(path) ==
    IF Len(path) >= 2 /\ path[2] = ":"
    THEN MNT_PREFIX \o <<to_ascii_lowercase(path[1])>>
                    \o ReplaceChar(SubSeq(path, 3, Len(path)), "BSL", "/")
    ELSE ReplaceChar(path, "BSL", "/")

\* /mnt/c/... becomes C:\...
to_windows_path(path) ==
    IF IsPrefix(MNT_PREFIX, path) /\ Len(path) >= Len(MNT_PREFIX) + 2
    THEN <<to_ascii_uppercase(path[Len(MNT_PREFIX) + 1]), ":">>
            \o ReplaceChar(SubSeq(path, Len(MNT_PREFIX) + 2, Len(path)), "/", "BSL")
    ELSE path

\* the rest of a path after its drive part
PathTails == SeqsOf({"/", "BSL", "a"}, 0, MaxTail)

\* /mnt/<letter>/...
WslForm == {MNT_PREFIX \o <<d, "/">> \o t : d \in DriveLetters, t \in PathTails}

\* X:\...
WindowsForm == {<<d, ":", "BSL">> \o t : d \in DriveLetters, t \in PathTails}

\* inputs of neither form, /mnt/data/x and 1:a among them
OtherPaths == {<<>>, <<"a">>, <<"c", ":">>, MNT_PREFIX \o <<"c">>,
               <<"a", "BSL", "a">>,
               MNT_PREFIX \o <<"d", "a", "t", "a", "/", "x">>,
               <<"1", ":", "a">>}

PickPath(p) ==
    /\ pm_pc = "idle"
    /\ pm_pc' = "picked"
    /\ pm_path' = p
    /\ UNCHANGED <<pm_dir, pm_mid, pm_out>>
    /\ UNCHANGED notPath

\* to_wsl_path(to_windows_path(p))
WslRoundTrip ==
    /\ pm_pc = "picked"
    /\ pm_pc' = "done"
    /\ pm_dir' = "windows"
    /\ pm_mid' = to_windows_path(pm_path)
    /\ pm_out' = to_wsl_path(to_windows_path(pm_path))
    /\ UNCHANGED pm_path
    /\ UNCHANGED notPath

\* to_windows_path(to_wsl_path(w))
WindowsRoundTrip ==
    /\ pm_pc = "picked"
    /\ pm_pc' = "done"
    /\ pm_dir' = "wsl"
    /\ pm_mid' = to_wsl_path(pm_path)
    /\ pm_out' = to_windows_path(to_wsl_path(pm_path))
    /\ UNCHANGED pm_path
    /\ UNCHANGED notPath

InitPath ==
    /\ pm_pc = "idle"
    /\ pm_path = <<>>
    /\ pm_dir = ""
    /\ pm_mid = <<>>
    /\ pm_out = <<>>

NextPath ==
    \/ \E p \in WslForm \cup WindowsForm \cup OtherPaths : PickPath(p)
    \/ WslRoundTrip
    \/ WindowsRoundTrip

(***************************************************************************)
(* Claims about the PathMapper                                             *)
(***************************************************************************)
\* equal except for the case of the character at position k
SameUpToCaseAt(p, q, k) ==
    /\ Len(p) = Len(q)
    /\ \A i \in 1..Len(p) :
          IF i = k THEN to_ascii_lowercase(p[i]) = to_ascii_lowercase(q[i])
          ELSE p[i] = q[i]

\* the round trip just made gave the input back, up to the drive letter
RoundTripIsIdentity ==
    IF pm_dir = "windows"
    THEN SameUpToCaseAt(pm_out, pm_path, Len(MNT_PREFIX) + 1)
    ELSE SameUpToCaseAt(pm_out, pm_path, 1)

\* the round trip just made started from an input of the form it is for
RoundTripOfForm ==
    /\ pm_pc = "done"
    /\ \/ pm_dir = "windows" /\ pm_path \in WslForm
       \/ pm_dir = "wsl" /\ pm_path \in WindowsForm

InRest(ch) == \E i \in 1..Len(pm_path) :
                 /\ pm_path[i] = ch
                 /\ i > (IF pm_dir = "windows" THEN Len(MNT_PREFIX) + 1 ELSE 2)

\* C12 as stated: to_wsl_path(to_windows_path(p)) = p for every p of the
\* form /mnt/<letter>/..., and to_windows_path(to_wsl_path(w)) = w for
\* every w of the form X:\..., up to the case of the drive letter.
C12_RoundTrip == RoundTripOfForm => RoundTripIsIdentity

\* C12 amended: the round trips give the input back, up to the case of the
\* drive letter, exactly when the rest of a /mnt/<letter>/... path holds no
\* backslash and the rest of an X:\... path holds no forward slash.
C12_RoundTripWithoutOtherSeparator ==
    RoundTripOfForm =>
        (RoundTripIsIdentity <=>
            ~InRest(IF pm_dir = "windows" THEN "BSL" ELSE "/"))

\* C12 witness: a /mnt/<letter>/... path with two components came back
\* unchanged from the round trip.
C12_Witness ==
    /\ RoundTripOfForm
    /\ pm_dir = "windows"
    /\ InRest("a")
    /\ Len(pm_path) = Len(MNT_PREFIX) + 2 + MaxTail
    /\ pm_path[Len(pm_path) - 1] = "/"
    /\ pm_out = pm_path

\* the letters among the characters of the paths
AsciiLetters == {"a", "c", "C", "d", "D", "m", "n", "t", "x"}

\* /mnt/<single letter>/...
IsMntDrivePath(p) ==
    /\ IsPrefix(MNT_PREFIX, p)
    /\ Len(p) >= Len(MNT_PREFIX) + 2
    /\ p[Len(MNT_PREFIX) + 1] \in AsciiLetters
    /\ p[Len(MNT_PREFIX) + 2] = "/"

\* a drive letter followed by a colon
IsDrivePath(p) == Len(p) >= 2 /\ p[1] \in AsciiLetters /\ p[2] = ":"

\* C40: to_windows_path converts only paths of the form /mnt/<single
\* letter>/...; any other path, /mnt/data/x included, is returned
\* unchanged; likewise to_wsl_path gives the /mnt form only to paths that
\* start with a drive letter followed by a colon (of any other path at most
\* the separators change).
C40_OnlyDriveFormsConverted ==
    pm_pc = "done" =>
        /\ (pm_dir = "windows" /\ ~IsMntDrivePath(pm_path)) => pm_mid = pm_path
        /\ (pm_dir = "wsl" /\ ~IsDrivePath(pm_path)) =>
              pm_mid = ReplaceChar(pm_path, "BSL", "/")

(***************************************************************************)
(* WebSocket receive path: spawn_recv_task turns frames into PtyMessages,  *)
(* spawn_input_task hands them to the session's PTY.  The text of a        *)
(* control frame is a NUL character followed by a JSON document, which is  *)
(* kept as its parsed structure: whether it is JSON at all, its "type"     *)
(* and its "cols" and "rows" members (absent or a number).                 *)
(***************************************************************************)
MIN_TERMINAL_SIZE == 1

MAX_TERMINAL_SIZE == 500

\* the largest u16
U16_MAX == 65535

\* the numbers a document may give for cols and rows
JsonNumbers == {0, MIN_TERMINAL_SIZE, MAX_TERMINAL_SIZE,
                MAX_TERMINAL_SIZE + 1, U16_MAX + 1}

Frame(kind, nul, json, type, cols, rows, data) ==
    [kind |-> kind, nul |-> nul, json |-> json, type |-> type,
     cols |-> cols, rows |-> rows, data |-> data]

\* text frames that begin with NUL
ControlFrames ==
    {Frame("text", TRUE, TRUE, "resize", <<c>>, <<r>>, <<>>) :
        c \in JsonNumbers, r \in JsonNumbers}
    \cup {Frame("text", TRUE, TRUE, "resize", <<MAX_TERMINAL_SIZE>>, <<>>, <<>>),
          Frame("text", TRUE, TRUE, "unknown", <<MIN_TERMINAL_SIZE>>,
                <<MIN_TERMINAL_SIZE>>, <<>>),
          Frame("text", TRUE, FALSE, "", <<>>, <<>>, <<>>)}

\* text frames that do not begin with NUL, binary frames, and the rest
DataFrames ==
    {Frame("text", FALSE, FALSE, "", <<>>, <<>>, d) :
        d \in {<<>>, <<"a">>, <<"a", "NUL">>}}
    \cup {Frame("binary", FALSE, FALSE, "", <<>>, <<>>, d) :
            d \in {<<"a">>, <<"NUL", "a">>}}
    \cup {Frame("ping", FALSE, FALSE, "", <<>>, <<>>, <<>>),
          Frame("close", FALSE, FALSE, "", <<>>, <<>>, <<>>)}

Frames == ControlFrames \cup DataFrames

IsU16(n) == n # <<>> /\ n[1] >= 0 /\ n[1] <= U16_MAX

\* serde_json::from_str::<ControlCommand>: the document is JSON, its type
\* is "resize", and cols and rows are present and fit a u16
ParsesAsResize(f) ==
    f.json /\ f.type = "resize" /\ IsU16(f.cols) /\ IsU16(f.rows)

\* a plausible slip: only the upper bound is applied
ClampUpperOnly(v, lo, hi) == IF v > hi THEN hi ELSE v

\* u16::clamp
Clamp(v, lo, hi) == IF v < lo THEN lo ELSE IF v > hi THEN hi ELSE v

Input(data) == [kind |-> "input", data |-> data, cols |-> 0, rows |-> 0]

Resize(cols, rows) == [kind |-> "resize", data |-> <<>>, cols |-> cols, rows |-> rows]

\* a plausible slip: binary frames are forwarded in read-only mode too
RecvMessagesBinaryAlways(f, input_enabled) ==
    IF f.kind = "text"
    THEN IF f.nul
         THEN IF ParsesAsResize(f)
              THEN <<Resize(Clamp(f.cols[1], MIN_TERMINAL_SIZE, MAX_TERMINAL_SIZE),
                            Clamp(f.rows[1], MIN_TERMINAL_SIZE, MAX_TERMINAL_SIZE))>>
              ELSE <<>>
         ELSE IF input_enabled THEN <<Input(f.data)>> ELSE <<>>
    ELSE IF f.kind = "binary" THEN <<Input(f.data)>>
    ELSE <<>>

\* what spawn_recv_task sends to the input task for one frame
RecvMessages(f, input_enabled) ==
    IF f.kind = "text"
    THEN IF f.nul
         THEN IF ParsesAsResize(f)
              THEN <<Resize(Clamp(f.cols[1], MIN_TERMINAL_SIZE, MAX_TERMINAL_SIZE),
                            Clamp(f.rows[1], MIN_TERMINAL_SIZE, MAX_TERMINAL_SIZE))>>
              ELSE <<>>
         ELSE IF input_enabled THEN <<Input(f.data)>> ELSE <<>>
    ELSE IF f.kind = "binary"
         THEN IF input_enabled THEN <<Input(f.data)>> ELSE <<>>
         ELSE <<>>

\* handle_socket: the session has a PTY, the tasks are spawned
WsAttach(enabled) ==
    /\ ws_pc = "detached"
    /\ ws_pc' = "open"
    /\ ws_input_enabled' = enabled
    /\ UNCHANGED <<ws_frames, ws_chan, ws_pty, ws_handled>>
    /\ UNCHANGED notWs

\* spawn_recv_task: one frame is received
WsRecv(f) ==
    /\ ws_pc = "open"
    /\ Len(ws_frames) < MaxFrames
    /\ ws_frames' = Append(ws_frames, f)
    /\ ws_chan' = ws_chan \o RecvMessages(f, ws_input_enabled)
    /\ ws_pc' = IF f.kind = "close" THEN "closed" ELSE "open"
    /\ UNCHANGED <<ws_input_enabled, ws_pty, ws_handled>>
    /\ UNCHANGED notWs

\* spawn_input_task: one message is taken; it goes to the PTY when the
\* session has one and is dropped otherwise
InputTaskStep ==
    /\ ws_chan # <<>>
    /\ ws_chan' = Tail(ws_chan)
    /\ ws_handled' = Append(ws_handled, [msg |-> Head(ws_chan), pty |-> ws_pty])
    /\ UNCHANGED <<ws_pc, ws_input_enabled, ws_frames, ws_pty>>
    /\ UNCHANGED notWs

\* the session is stopped: session.pty becomes None
WsPtyGone ==
    /\ ws_pc # "detached"
    /\ ws_pty
    /\ ws_pty' = FALSE
    /\ UNCHANGED <<ws_pc, ws_input_enabled, ws_frames, ws_chan, ws_handled>>
    /\ UNCHANGED notWs

\* the session is started again
WsPtyBack ==
    /\ ~ws_pty
    /\ ws_pty' = TRUE
    /\ UNCHANGED <<ws_pc, ws_input_enabled, ws_frames, ws_chan, ws_handled>>
    /\ UNCHANGED notWs

InitWs ==
    /\ ws_pc = "detached"
    /\ ws_input_enabled = FALSE
    /\ ws_frames = <<>>
    /\ ws_chan = <<>>
    /\ ws_pty = TRUE
    /\ ws_handled = <<>>

NextWs ==
    \/ \E enabled \in BOOLEAN : WsAttach(enabled)
    \/ \E f \in Frames : WsRecv(f)
    \/ InputTaskStep
    \/ WsPtyGone
    \/ WsPtyBack

(***************************************************************************)
(* Claims about the WebSocket receive path                                 *)
(***************************************************************************)
\* the PtyMessages taken by the input task followed by those still queued
WsMessages == [i \in 1..Len(ws_handled) |-> ws_handled[i].msg] \o ws_chan

\* the calls the PTY received
WsPtyCalls ==
    LET got == SelectSeq(ws_handled, LAMBDA h : h.pty)
    IN  [i \in 1..Len(got) |-> got[i].msg]

IsResizeCommand(f) ==
    /\ f.kind = "text"
    /\ f.nul
    /\ f.json
    /\ f.type = "resize"
    /\ f.cols # <<>> /\ f.cols[1] \in 0..U16_MAX
    /\ f.rows # <<>> /\ f.rows[1] \in 0..U16_MAX

ClampedTo1And500(v) == IF v = 0 THEN 1 ELSE IF v > 500 THEN 500 ELSE v

\* the resize commands among the frames received, clamped, in order
RECURSIVE ResizesOf(_)
ResizesOf(frames) ==
    IF frames = <<>> THEN <<>>
    ELSE (IF IsResizeCommand(Head(frames))
          THEN <<Resize(ClampedTo1And500(Head(frames).cols[1]),
                        ClampedTo1And500(Head(frames).rows[1]))>>
          ELSE <<>>) \o ResizesOf(Tail(frames))

\* C13: the resize messages handed to the input task are exactly the resize
\* commands received, in order, with cols and rows clamped to [1, 500],
\* whether input is enabled or not; each one the input task has taken while
\* the session had a PTY was passed to the PTY, and every resize the PTY
\* received has cols and rows in [1, 500].
C13_ResizeClampedAndForwarded ==
    /\ SelectSeq(WsMessages, LAMBDA m : m.kind = "resize") = ResizesOf(ws_frames)
    /\ \A i \in 1..Len(WsPtyCalls) :
          WsPtyCalls[i].kind = "resize" =>
              /\ WsPtyCalls[i].cols \in 1..500
              /\ WsPtyCalls[i].rows \in 1..500

\* C13 witness: with input disabled the PTY received a resize whose cols
\* were raised to 1 and whose rows were cut to 500.
C13_Witness ==
    /\ ~ws_input_enabled
    /\ \E i \in 1..Len(ws_frames) :
          /\ IsResizeCommand(ws_frames[i])
          /\ ws_frames[i].cols[1] = 0
          /\ ws_frames[i].rows[1] > 500
    /\ \E i \in 1..Len(WsPtyCalls) : WsPtyCalls[i] = Resize(1, 500)

IsInputFrame(f) == f.kind = "binary" \/ (f.kind = "text" /\ ~f.nul)

\* the bytes of the frames that are to be written, in order
RECURSIVE InputsOf(_, _)
InputsOf(frames, enabled) ==
    IF frames = <<>> THEN <<>>
    ELSE (IF enabled /\ IsInputFrame(Head(frames))
          THEN <<Input(Head(frames).data)>>
          ELSE <<>>) \o InputsOf(Tail(frames), enabled)

\* C14: the input messages handed to the input task are exactly the binary
\* frames and the text frames without a leading NUL received while input is
\* enabled, in order; with input disabled there is none, and a text frame
\* with a leading NUL never gives one.
C14_InputOnlyWhenEnabled ==
    /\ SelectSeq(WsMessages, LAMBDA m : m.kind = "input")
          = InputsOf(ws_frames, ws_input_enabled)
    /\ ~ws_input_enabled =>
          \A i \in 1..Len(WsPtyCalls) : WsPtyCalls[i].kind # "input"

\* C14 witness: with input enabled a malformed control frame and a binary
\* frame were received, and the PTY got the bytes of the binary frame only.
C14_Witness ==
    /\ ws_input_enabled
    /\ Len(ws_frames) = 2
    /\ ws_frames[1].nul /\ ~ParsesAsResize(ws_frames[1])
    /\ ws_frames[2].kind = "binary"
    /\ ws_chan = <<>>
    /\ WsPtyCalls = <<Input(ws_frames[2].data)>>

(***************************************************************************)
(* PTY output fan-out: the reader thread publishes every chunk on a        *)
(* broadcast channel and then stores it in the replay buffer; a viewer     *)
(* (handle_socket) takes a snapshot of the replay buffer, subscribes, and  *)
(* relays what its receiver yields.  The bytes of the output are numbered  *)
(* 1, 2, 3, ... in the order they are read, so that a chunk is known by    *)
(* its bytes.  The channel keeps the last ChannelCap chunks.               *)
(***************************************************************************)
Viewers == {"v1", "v2"}

\* the chunk of len bytes read after the chunks already read
NextChunk(sent, len) == [i \in 1..len |-> Len(Concat(sent)) + i]

\* a plausible slip: the reader waits until every receiver has room
CanPublishWhenRoom(sent, view) ==
    \A v \in Viewers :
        view[v].pc = "live" => Len(sent) - (view[v].next - 1) < ChannelCap

\* broadcast::Sender::send never waits for receivers
CanPublish(sent, view) == TRUE

\* a plausible slip: the receiver does not move past the chunk it yields
AfterRecvStay(next) == next

\* the receiver moves to the chunk after the one it yields
AfterRecv(next) == next + 1

\* the receiver has fallen more than the capacity behind
Lagged(sent, next) == Len(sent) - (next - 1) > ChannelCap

\* spawn_command: the reader thread starts with an empty replay buffer
FanSpawn(limit) ==
    /\ f_pc = "unspawned"
    /\ f_pc' = "read"
    /\ f_limit' = limit
    /\ UNCHANGED <<f_cur, f_sent, f_buffer, f_view>>
    /\ UNCHANGED notFan

\* reader.read returned Ok(n), n > 0
FanRead(len) ==
    /\ f_pc = "read"
    /\ Len(f_sent) < MaxChunks
    /\ f_cur' = NextChunk(f_sent, len)
    /\ f_pc' = "publish"
    /\ UNCHANGED <<f_limit, f_sent, f_buffer, f_view>>
    /\ UNCHANGED notFan

\* output_tx.send(data.clone()), its result ignored
FanPublish ==
    /\ f_pc = "publish"
    /\ CanPublish(f_sent, f_view)
    /\ f_sent' = Append(f_sent, f_cur)
    /\ f_pc' = "store"
    /\ UNCHANGED <<f_limit, f_cur, f_buffer, f_view>>
    /\ UNCHANGED notFan

\* the chunk is stored in the replay buffer under its lock
FanStore ==
    /\ f_pc = "store"
    /\ f_buffer' = IF f_limit > 0 THEN AppendReplay(f_buffer, f_cur, f_limit)
                   ELSE f_buffer
    /\ f_cur' = <<>>
    /\ f_pc' = "read"
    /\ UNCHANGED <<f_limit, f_sent, f_view>>
    /\ UNCHANGED notFan

\* handle_socket: pty.get_buffer(), sent as one binary frame; seen is the
\* number of chunks the reader had read at that moment
ViewerSnapshot(v) ==
    /\ f_pc # "unspawned"
    /\ f_view[v].pc = "idle"
    /\ f_view' = [f_view EXCEPT ![v].pc = "snap",
                                ![v].snap = f_buffer,
                                ![v].seen = Len(f_sent)
                                            + (IF f_pc = "publish" THEN 1 ELSE 0)]
    /\ UNCHANGED <<f_pc, f_limit, f_cur, f_sent, f_buffer>>
    /\ UNCHANGED notFan

\* handle_socket: pty.subscribe_output(); the receiver starts after the
\* chunks already sent
ViewerSubscribe(v) ==
    /\ f_view[v].pc = "snap"
    /\ f_view' = [f_view EXCEPT ![v].pc = "live",
                                ![v].first = Len(f_sent) + 1,
                                ![v].next = Len(f_sent) + 1]
    /\ UNCHANGED <<f_pc, f_limit, f_cur, f_sent, f_buffer>>
    /\ UNCHANGED notFan

\* spawn_send_task: output_rx.recv() yields the next chunk, which is relayed
\* as a binary frame; on Err(Lagged) the loop, and with it the viewer, ends
ViewerRecv(v) ==
    /\ f_view[v].pc = "live"
    /\ IF Lagged(f_sent, f_view[v].next)
       THEN f_view' = [f_view EXCEPT ![v].pc = "closed", ![v].lagged = TRUE]
       ELSE /\ f_view[v].next <= Len(f_sent)
            /\ f_view' = [f_view EXCEPT
                            ![v].got = Append(@, f_sent[f_view[v].next]),
                            ![v].next = AfterRecv(@)]
    /\ UNCHANGED <<f_pc, f_limit, f_cur, f_sent, f_buffer>>
    /\ UNCHANGED notFan

InitFan ==
    /\ f_pc = "unspawned"
    /\ f_limit = 0
    /\ f_cur = <<>>
    /\ f_sent = <<>>
    /\ f_buffer = <<>>
    /\ f_view = [v \in Viewers |->
                   [pc |-> "idle", snap |-> <<>>, seen |-> 0, first |-> 0,
                    next |-> 0, got |-> <<>>, lagged |-> FALSE]]

NextFan ==
    \/ \E limit \in {0, MaxCap} : FanSpawn(limit)
    \/ \E len \in 1..MaxChunkLen : FanRead(len)
    \/ FanPublish
    \/ FanStore
    \/ \E v \in Viewers : ViewerSnapshot(v)
    \/ \E v \in Viewers : ViewerSubscribe(v)
    \/ \E v \in Viewers : ViewerRecv(v)

\* the reader thread runs whenever it can: it is a thread of its own
FairFan == WF_vars(FanPublish) /\ WF_vars(FanStore)

(***************************************************************************)
(* Claims about the fan-out                                                *)
(***************************************************************************)
\* C15: what a subscriber has received is a subsequence of the chunks sent:
\* every chunk received is a chunk the reader read, and they come in the
\* order read, none twice.
C15_ReceivedInOrderRead ==
    \A v \in Viewers :
        LET got == f_view[v].got
        IN  /\ \A i \in 1..Len(got) : \E k \in 1..Len(f_sent) : got[i] = f_sent[k]
            /\ \A i, j \in 1..Len(got) : i < j => got[i][1] < got[j][1]

\* C15 witness: a subscriber has received two chunks while another has
\* received none of them.
C15_Witness ==
    /\ Len(f_view["v1"].got) >= 2
    /\ f_view["v2"].pc = "live"
    /\ f_view["v2"].got = <<>>
    /\ f_view["v2"].next <= Len(f_sent)

\* C16: a chunk the reader has read is published and stored, and the reader
\* is back at its next read, whatever the subscribers do or fail to do.
C16_ReaderNeverStalls == (f_pc = "publish") ~> (f_pc = "read")

\* C16 witness: the reader is back at read after a chunk that a subscriber
\* will never see because it lagged, with another viewer not yet subscribed.
C16_Witness ==
    /\ f_pc = "read"
    /\ Len(f_sent) = MaxChunks
    /\ \E v \in Viewers : f_view[v].lagged
    /\ f_buffer # <<>>

\* C17: a viewer that did not lag receives the snapshot followed by every
\* chunk read after the snapshot was taken: its receiver starts no later
\* than the first chunk read after the snapshot, it relays the chunks from
\* there on in order, and no byte of them is in the snapshot already.
C17_NoGapAfterSnapshot ==
    \A v \in Viewers :
        (f_view[v].pc = "live" /\ ~f_view[v].lagged) =>
            /\ f_view[v].first <= f_view[v].seen + 1
            /\ f_view[v].got = SubSeq(f_sent, f_view[v].first, f_view[v].next - 1)
            /\ \A i \in 1..Len(f_view[v].got) :
                  \A k \in 1..Len(f_view[v].snap) :
                      f_view[v].snap[k] # f_view[v].got[i][1]

\* C38: a viewer whose receiver has fallen behind the capacity of the
\* broadcast channel loses only the oldest chunks it had not received and
\* keeps being relayed the later ones: lagging does not end its output
\* stream.
C38_LaggingKeepsStreaming ==
    \A v \in Viewers : f_view[v].lagged => f_view[v].pc = "live"

(***************************************************************************)
(* HTTP control endpoints: api_start_agent, api_stop_agent and             *)
(* api_interrupt_agent look the name up in the session map, invoke the     *)
(* session operation and map its Result to a response.  Whether the        *)
(* operation succeeds is the session's business: here it is an input.      *)
(***************************************************************************)
AgentNames == {"claude", "codex", "ghost"}

Endpoints == {"start", "stop", "interrupt"}

NOT_FOUND == 404

INTERNAL_SERVER_ERROR == 500

OK == 200

\* the "status" member of the JSON object of a successful response
StatusWord(endpoint) ==
    CASE endpoint = "start" -> "started"
      [] endpoint = "stop" -> "stopped"
      [] endpoint = "interrupt" -> "interrupted"

\* a plausible slip: the operation's error is dropped (no map_err)
ApiResultErrIgnored(found, ok) == IF ~found THEN NOT_FOUND ELSE OK

\* .ok_or(StatusCode::NOT_FOUND)?  then
\* .map_err(|_| StatusCode::INTERNAL_SERVER_ERROR)?  then  Ok(Json(..))
ApiResult(found, ok) ==
    IF ~found THEN NOT_FOUND
    ELSE IF ~ok THEN INTERNAL_SERVER_ERROR
    ELSE OK

\* the state of a session after an operation on it
SessionAfter(op, st, ok) ==
    CASE op = "start" -> IF ok THEN "Ready" ELSE "Failed"
      [] op = "stop" -> IF ok THEN "Stopped" ELSE st
      [] op = "interrupt" -> st

Response(endpoint, name, code) ==
    [endpoint |-> endpoint, name |-> name, code |-> code,
     body |-> IF code = OK
              THEN <<[status |-> StatusWord(endpoint), agent |-> name]>>
              ELSE <<>>]

\* the server comes up with the sessions of the configured agents
HttpServe(names) ==
    /\ ~h_up
    /\ h_up' = TRUE
    /\ h_map' = names
    /\ h_state' = [n \in names |-> "Stopped"]
    /\ UNCHANGED <<h_calls, h_resp>>
    /\ UNCHANGED notHttp

\* POST /api/agents/{name}/{endpoint}; ok is the outcome of the session
\* operation, should it be invoked
ApiAgent(endpoint, name, ok) ==
    /\ h_up
    /\ Len(h_resp) < MaxHttp
    /\ LET found == name \in h_map
       IN  /\ h_calls' = IF found
                         THEN Append(h_calls, [op |-> endpoint, name |-> name, ok |-> ok])
                         ELSE h_calls
           /\ h_state' = IF found
                         THEN [h_state EXCEPT ![name] = SessionAfter(endpoint, @, ok)]
                         ELSE h_state
           /\ h_resp' = Append(h_resp, Response(endpoint, name, ApiResult(found, ok)))
    /\ UNCHANGED <<h_up, h_map>>
    /\ UNCHANGED notHttp

api_start_agent(name, ok) == ApiAgent("start", name, ok)

api_stop_agent(name, ok) == ApiAgent("stop", name, ok)

api_interrupt_agent(name, ok) == ApiAgent("interrupt", name, ok)

InitHttp ==
    /\ h_up = FALSE
    /\ h_map = {}
    /\ h_state = <<>>
    /\ h_calls = <<>>
    /\ h_resp = <<>>

NextHttp ==
    \/ \E names \in {{}, {"claude"}, {"claude", "codex"}} : HttpServe(names)
    \/ \E name \in AgentNames, ok \in BOOLEAN : api_start_agent(name, ok)
    \/ \E name \in AgentNames, ok \in BOOLEAN : api_stop_agent(name, ok)
    \/ \E name \in AgentNames, ok \in BOOLEAN : api_interrupt_agent(name, ok)

(***************************************************************************)
(* Claims about the HTTP control endpoints                                 *)
(***************************************************************************)
\* C18: each request to a start, stop or interrupt endpoint: for a name
\* that is not in the session map the response is 404, no session operation
\* is invoked and no session's state changes; for a name in the map the
\* operation of that endpoint is invoked on that session, the response is
\* 500 exactly when it failed, and otherwise it carries a JSON object.
C18_EndpointResponses ==
    [][ Len(h_resp') = Len(h_resp) + 1 =>
          LET r == h_resp'[Len(h_resp')]
          IN  /\ r.endpoint \in Endpoints
              /\ r.name \notin h_map =>
                    /\ r.code = NOT_FOUND
                    /\ h_calls' = h_calls
                    /\ h_state' = h_state
              /\ r.name \in h_map =>
                    /\ Len(h_calls') = Len(h_calls) + 1
                    /\ LET c == h_calls'[Len(h_calls')]
                       IN  /\ c.op = r.endpoint
                           /\ c.name = r.name
                           /\ (r.code = INTERNAL_SERVER_ERROR) <=> ~c.ok
                           /\ c.ok => /\ r.code = OK
                                      /\ r.body = <<[status |-> StatusWord(r.endpoint),
                                                     agent |-> r.name]>>
              /\ r.code = INTERNAL_SERVER_ERROR => r.name \in h_map
    ]_vars

\* C18 witness: an unknown name was answered 404 after one operation had
\* failed and one had succeeded.
C18_Witness ==
    /\ Len(h_resp) = MaxHttp
    /\ h_resp[MaxHttp].code = NOT_FOUND
    /\ \E i \in 1..Len(h_calls) : ~h_calls[i].ok
    /\ \E i \in 1..Len(h_calls) : h_calls[i].ok
    /\ \E i \in 1..Len(h_resp) : h_resp[i].code = INTERNAL_SERVER_ERROR
    /\ \E i \in 1..Len(h_resp) : h_resp[i].code = OK

(***************************************************************************)
(* The whole-file JSON providers on one session file: the messages array   *)
(* of the file is any short array, elements without a usable role or       *)
(* content included, and the reply to a poll is computed from it by        *)
(* get_latest_reply of the provider.                                       *)
(***************************************************************************)
\* the elements a messages array is made of
JsonElements ==
    {[role |-> "user", content |-> <<"r">>, ts |-> 1, usable |-> TRUE],
     [role |-> "assistant", content |-> <<"r">>, ts |-> 1, usable |-> TRUE],
     [role |-> "assistant", content |-> <<>>, ts |-> 1, usable |-> TRUE],
     [role |-> "assistant", content |-> <<"r">>, ts |-> 1, usable |-> FALSE]}

JsonArrays == SeqsOf(JsonElements, 0, MaxMsgs)

\* a directory that holds the one session file
OneFile(msgs) ==
    [f \in Files |-> IF f = "session-1"
                     THEN [exists |-> TRUE, mtime |-> 1, msgs |-> msgs]
                     ELSE [exists |-> FALSE, mtime |-> 0, msgs |-> <<>>]]

\* the session file is written
JsonWrite(msgs) ==
    /\ j_pc = "unset"
    /\ j_pc' = "set"
    /\ j_msgs' = msgs
    /\ UNCHANGED j_out
    /\ UNCHANGED notJson

JsonStore(p, since, r) ==
    /\ j_out' = <<[provider |-> p, since |-> since,
                   entry |-> IF r = <<>> THEN <<>> ELSE <<r[1].entry>>]>>
    /\ UNCHANGED <<j_pc, j_msgs>>
    /\ UNCHANGED notJson

\* OpenCodeLogProvider::get_latest_reply
JsonOpenCodePoll(since) ==
    /\ j_pc = "set"
    /\ JsonStore("opencode", since,
                 opencode_get_latest_reply(OneFile(j_msgs), since))

\* GeminiLogProvider::get_latest_reply, no session locked
JsonGeminiPoll(since) ==
    /\ j_pc = "set"
    /\ JsonStore("gemini", since,
                 gemini_get_latest_reply(OneFile(j_msgs), <<>>, since))

InitJson ==
    /\ j_pc = "unset"
    /\ j_msgs = <<>>
    /\ j_out = <<>>

NextJson ==
    \/ \E msgs \in JsonArrays : JsonWrite(msgs)
    \/ \E since \in 0..MaxMsgs : JsonOpenCodePoll(since)
    \/ \E since \in 0..MaxMsgs : JsonGeminiPoll(since)

(***************************************************************************)
(* Claims about the whole-file JSON providers                              *)
(***************************************************************************)
\* an element of the messages array that qualifies: a usable assistant
\* message whose content is not empty
QualifiesJson(m) == m.usable /\ m.role = "assistant" /\ m.content # <<>>

\* the positions (from 1) in the full messages array of the qualifying
\* messages at index >= since
QualifyingFrom(msgs, since) ==
    {i \in 1..Len(msgs) : i - 1 >= since /\ QualifiesJson(msgs[i])}

\* C25: the reply to a poll is the last qualifying assistant message of the
\* messages array at index >= since_offset, None when there is none, and
\* its offset is that message's index in the full array plus one.
C25_LastQualifyingWithFullIndex ==
    j_out # <<>> =>
        LET r == j_out[1]
            hits == QualifyingFrom(j_msgs, r.since)
        IN  IF hits = {} THEN r.entry = <<>>
            ELSE /\ r.entry # <<>>
                 /\ r.entry[1].offset = MaxOf(hits)
                 /\ r.entry[1].content = j_msgs[MaxOf(hits)].content

\* C26: the reply to a poll never has empty content, and a qualifying
\* message at index >= since_offset that precedes an assistant message with
\* empty content is not lost to it: some reply is returned.
C26_NoEmptyReply ==
    j_out # <<>> =>
        LET r == j_out[1]
        IN  /\ r.entry # <<>> => r.entry[1].content # <<>>
            /\ (\A m \in {j_msgs[i] : i \in 1..Len(j_msgs)} : m.usable) =>
                  (QualifyingFrom(j_msgs, r.since) # {} => r.entry # <<>>)

(***************************************************************************)
(* get_history of the three providers on the latest session file: the      *)
(* file is absent or holds any short array of elements (lines, for the     *)
(* JSONL provider), elements that do not parse included; the read of the   *)
(* file may fail.                                                          *)
(***************************************************************************)
HistElements ==
    {[role |-> "user", content |-> <<"q">>, ts |-> 1, usable |-> TRUE],
     [role |-> "assistant", content |-> <<"r">>, ts |-> 2, usable |-> TRUE],
     [role |-> "model", content |-> <<"r">>, ts |-> 3, usable |-> TRUE],
     [role |-> "assistant", content |-> <<"r">>, ts |-> 2, usable |-> FALSE]}

HistFiles == {<<>>} \cup {<<msgs>> : msgs \in SeqsOf(HistElements, 0, MaxMsgs)}

HistoryEntry(role, content, timestamp) ==
    [role |-> role, content |-> content, timestamp |-> timestamp]

\* Vec::reverse
Reverse(s) == [i \in 1..Len(s) |-> s[Len(s) + 1 - i]]

\* Vec::truncate: the first len elements, all of them when there are fewer
Truncate(s, len) == SubSeq(s, 1, Min(len, Len(s)))

\* a plausible slip: the final reverse is missing
LastEntriesNewestFirst(entries, count) == Truncate(Reverse(entries), count)

\* entries.reverse(); entries.truncate(count); entries.reverse()
LastEntries(entries, count) == Reverse(Truncate(Reverse(entries), count))

\* CodexLogProvider::get_history: the lines that parse, as they are
codex_get_history(file, readable, count) ==
    IF file = <<>> \/ ~readable THEN <<>>
    ELSE LET lines == SelectSeq(file[1], parse_jsonl_entry)
             entries == [i \in 1..Len(lines) |->
                           HistoryEntry(lines[i].role, lines[i].content,
                                        lines[i].ts)]
         IN  LastEntries(entries, count)

\* OpenCodeLogProvider::get_history
opencode_get_history(file, readable, count) ==
    IF file = <<>> \/ ~readable THEN <<>>
    ELSE LET parsed == parse_session_json(file[1])
             entries == [i \in 1..Len(parsed) |->
                           HistoryEntry(parsed[i].role, parsed[i].content,
                                        parsed[i].ts)]
         IN  LastEntries(entries, count)

\* "gemini" and "model" are reported as "assistant"
normalized_role(role) ==
    IF role = "model" \/ role = "gemini" THEN "assistant" ELSE role

\* GeminiLogProvider::get_history
gemini_get_history(file, readable, count) ==
    IF file = <<>> \/ ~readable THEN <<>>
    ELSE LET parsed == parse_chat_json(file[1])
             entries == [i \in 1..Len(parsed) |->
                           HistoryEntry(normalized_role(parsed[i].role),
                                        parsed[i].content, parsed[i].ts)]
         IN  LastEntries(entries, count)

\* the session directory is in some state
HistWrite(file) ==
    /\ hi_pc = "unset"
    /\ hi_pc' = "set"
    /\ hi_file' = file
    /\ UNCHANGED hi_out
    /\ UNCHANGED notHist

HistStore(p, count, readable, entries) ==
    /\ hi_pc = "set"
    /\ hi_out' = <<[provider |-> p, count |-> count, readable |-> readable,
                    entries |-> entries]>>
    /\ UNCHANGED <<hi_pc, hi_file>>
    /\ UNCHANGED notHist

CodexGetHistory(count, readable) ==
    HistStore("codex", count, readable,
              codex_get_history(hi_file, readable, count))

OpenCodeGetHistory(count, readable) ==
    HistStore("opencode", count, readable,
              opencode_get_history(hi_file, readable, count))

GeminiGetHistory(count, readable) ==
    HistStore("gemini", count, readable,
              gemini_get_history(hi_file, readable, count))

InitHist ==
    /\ hi_pc = "unset"
    /\ hi_file = <<>>
    /\ hi_out = <<>>

NextHist ==
    \/ \E file \in HistFiles : HistWrite(file)
    \/ \E count \in 0..(MaxMsgs + 1), readable \in BOOLEAN :
          CodexGetHistory(count, readable)
    \/ \E count \in 0..(MaxMsgs + 1), readable \in BOOLEAN :
          OpenCodeGetHistory(count, readable)
    \/ \E count \in 0..(MaxMsgs + 1), readable \in BOOLEAN :
          GeminiGetHistory(count, readable)

(***************************************************************************)
(* Claims about get_history                                                *)
(***************************************************************************)
\* the elements of the file that parse, oldest first; none when there is
\* no file or it cannot be read
ParsedOf(file, readable) ==
    IF file = <<>> \/ ~readable THEN <<>>
    ELSE SelectSeq(file[1], LAMBDA m : m.usable)

\* C32: for each of the three providers get_history(_, count) returns
\* exactly the last min(count, n) of the n parsed entries of the latest
\* session file, oldest first (the Gemini provider reports the roles
\* "model" and "gemini" as "assistant"); the list is empty when count is 0
\* and when there is no file or it cannot be read.
C32_HistoryIsLastEntries ==
    hi_out # <<>> =>
        LET o == hi_out[1]
            parsed == ParsedOf(hi_file, o.readable)
            n == Len(parsed)
            k == IF o.count <= n THEN o.count ELSE n
        IN  /\ Len(o.entries) = k
            /\ \A i \in 1..k :
                  LET m == parsed[n - k + i]
                  IN  /\ o.entries[i].content = m.content
                      /\ o.entries[i].timestamp = m.ts
                      /\ o.entries[i].role =
                            IF o.provider = "gemini" /\ m.role = "model"
                            THEN "assistant" ELSE m.role
            /\ (o.count = 0 \/ hi_file = <<>> \/ ~o.readable) =>
                  o.entries = <<>>

\* C32 witness: a file of three parsed entries and one that does not parse
\* was asked for its last two, and the two returned differ.
C32_Witness ==
    /\ hi_out # <<>>
    /\ hi_file # <<>>
    /\ hi_out[1].readable
    /\ hi_out[1].count = 2
    /\ Len(ParsedOf(hi_file, TRUE)) = 3
    /\ Len(hi_out[1].entries) = 2
    /\ hi_out[1].entries[1] # hi_out[1].entries[2]

(***************************************************************************)
(* PtyManager: the registry of handles by agent name.  A handle is an      *)
(* Arc<PtyHandle>: the map holds one reference, the caller of create or    *)
(* remove another, shutdown_all a third while it works; when the last one  *)
(* goes the handle is dropped.  What shutdown() does inside a handle is    *)
(* modelled with the writer thread; here it is one step that returns.      *)
(***************************************************************************)
PtyNames == {"claude", "codex"}

HandleIds == 1..MaxCreates

Argvs == {<<>>, <<"sh">>}

NoHandle == [st |-> "none", held |-> FALSE, shutdowns |-> 0, killed |-> FALSE]

\* a plausible slip: the new entry is added next to the one already there
InsertKeepPrior(handles, name, id) == handles \cup {[name |-> name, id |-> id]}

\* HashMap::insert: the entry of the key is replaced
Insert(handles, name, id) ==
    {e \in handles : e.name # name} \cup {[name |-> name, id |-> id]}

\* PtyManager::get
get(handles, name) ==
    IF \E e \in handles : e.name = name
    THEN <<(CHOOSE e \in handles : e.name = name).id>>
    ELSE <<>>

\* PtyManager::list
list(handles) == {e.name : e \in handles}

SeqRange(q) == {q[i] : i \in 1..Len(q)}

\* Drop for PtyHandle, run when the last Arc goes: the flag is set and the
\* child is killed (try_lock succeeds, nobody else can hold the lock)
DropUnreferenced(h, handles, todo) ==
    [id \in HandleIds |->
        IF /\ h[id].st = "live"
           /\ ~h[id].held
           /\ id \notin {e.id : e \in handles}
           /\ id \notin SeqRange(todo)
        THEN [h[id] EXCEPT !.st = "dropped", !.killed = TRUE]
        ELSE h[id]]

\* PtyManager::create: spawn_command fails on an empty argv or when the
\* PTY or the child cannot be made, before the map is touched; otherwise
\* the handle goes into the map and a clone to the caller
Create(name, argv, spawns) ==
    /\ mg_calls < MaxCreates
    /\ mg_calls' = mg_calls + 1
    /\ IF argv = <<>> \/ ~spawns
       THEN /\ mg_last' = [name |-> name, handle |-> <<>>]
            /\ UNCHANGED <<mg_handles, mg_h, mg_next, mg_sa>>
       ELSE LET id == mg_next + 1
                handles == Insert(mg_handles, name, id)
                h == [mg_h EXCEPT ![id] = [st |-> "live", held |-> TRUE,
                                           shutdowns |-> 0, killed |-> FALSE]]
            IN  /\ mg_next' = id
                /\ mg_handles' = handles
                /\ mg_h' = DropUnreferenced(h, handles, mg_sa.todo)
                /\ mg_sa' = [mg_sa EXCEPT !.seen = IF mg_sa.pc = "running"
                                                    THEN @ \cup {id} ELSE @]
                /\ mg_last' = [name |-> name, handle |-> <<id>>]
    /\ UNCHANGED notMgr

\* the caller of create or remove lets go of its Arc
Release(id) ==
    /\ mg_h[id].st = "live"
    /\ mg_h[id].held
    /\ mg_h' = DropUnreferenced([mg_h EXCEPT ![id].held = FALSE], mg_handles,
                                mg_sa.todo)
    /\ UNCHANGED <<mg_handles, mg_next, mg_calls, mg_sa, mg_last>>
    /\ UNCHANGED notMgr

\* PtyManager::remove: the entry leaves the map, its Arc goes to the caller
Remove(name) ==
    /\ get(mg_handles, name) # <<>>
    /\ mg_handles' = {e \in mg_handles : e.name # name}
    /\ mg_h' = [mg_h EXCEPT ![get(mg_handles, name)[1]].held = TRUE]
    /\ UNCHANGED <<mg_next, mg_calls, mg_sa, mg_last>>
    /\ UNCHANGED notMgr

\* PtyManager::shutdown_all, first statement: the map is drained under its
\* lock into a Vec, in the map's iteration order
ShutdownAllDrain(order) ==
    /\ mg_sa.pc = "idle"
    /\ Len(order) = Cardinality(mg_handles)
    /\ SeqRange(order) = {e.id : e \in mg_handles}
    /\ mg_handles' = {}
    /\ mg_sa' = [pc |-> "running", todo |-> order, seen |-> SeqRange(order)]
    /\ UNCHANGED <<mg_h, mg_next, mg_calls, mg_last>>
    /\ UNCHANGED notMgr

\* one round of the for loop: handle.shutdown().await, then the Arc of the
\* Vec goes
ShutdownAllStep ==
    /\ mg_sa.pc = "running"
    /\ mg_sa.todo # <<>>
    /\ LET id == Head(mg_sa.todo)
           h == [mg_h EXCEPT ![id].shutdowns = @ + 1, ![id].killed = TRUE]
       IN  /\ mg_sa' = [mg_sa EXCEPT !.todo = Tail(@)]
           /\ mg_h' = DropUnreferenced(h, mg_handles, Tail(mg_sa.todo))
    /\ UNCHANGED <<mg_handles, mg_next, mg_calls, mg_last>>
    /\ UNCHANGED notMgr

\* shutdown_all returns
ShutdownAllReturn ==
    /\ mg_sa.pc = "running"
    /\ mg_sa.todo = <<>>
    /\ mg_sa' = [mg_sa EXCEPT !.pc = "returned"]
    /\ UNCHANGED <<mg_handles, mg_h, mg_next, mg_calls, mg_last>>
    /\ UNCHANGED notMgr

InitMgr ==
    /\ mg_handles = {}
    /\ mg_h = [id \in HandleIds |-> NoHandle]
    /\ mg_next = 0
    /\ mg_calls = 0
    /\ mg_sa = [pc |-> "idle", todo |-> <<>>, seen |-> {}]
    /\ mg_last = [name |-> "", handle |-> <<>>]

NextMgr ==
    \/ \E name \in PtyNames, argv \in Argvs, spawns \in BOOLEAN :
          Create(name, argv, spawns)
    \/ \E id \in HandleIds : Release(id)
    \/ \E name \in PtyNames : Remove(name)
    \/ \E order \in SeqsOf(HandleIds, 0, MaxCreates) : ShutdownAllDrain(order)
    \/ ShutdownAllStep
    \/ ShutdownAllReturn

C36_ShutdownAllLeavesNothing ==
    [][(mg_sa.pc = "running" /\ mg_sa'.pc = "returned") =>
        /\ list(mg_handles') = {}
        /\ \A id \in mg_sa'.seen : mg_h'[id].shutdowns = 1]_vars

(***************************************************************************)
(* The three tasks of one WebSocket connection and the handler that        *)
(* spawned them: which of them runs, what waits in the input channel and   *)
(* in the relay task's broadcast receiver.  What the frames carry is       *)
(* modelled with the receive path above.                                   *)
(***************************************************************************)
\* handle_socket: the three tasks are spawned, then select! waits
HandleSocket ==
    /\ wt_handler = "none"
    /\ wt_handler' = "select"
    /\ wt_sock' = "open"
    /\ wt_recv' = "running"
    /\ wt_input' = "running"
    /\ wt_send' = "running"
    /\ UNCHANGED <<wt_inq, wt_out, wt_pty, wt_made, wt_relayed>>
    /\ UNCHANGED notTask

\* select! returns and the JoinHandles of the other tasks are dropped,
\* which detaches the tasks: they keep running
AfterSelect(task) == task

\* tokio::select! over the three JoinHandles: the first task to finish
\* ends handle_socket
SelectReturns ==
    /\ wt_handler = "select"
    /\ "done" \in {wt_recv, wt_input, wt_send}
    /\ wt_handler' = "returned"
    /\ wt_recv' = AfterSelect(wt_recv)
    /\ wt_input' = AfterSelect(wt_input)
    /\ wt_send' = AfterSelect(wt_send)
    /\ UNCHANGED <<wt_sock, wt_inq, wt_out, wt_pty, wt_made, wt_relayed>>
    /\ UNCHANGED notTask

\* the browser closes the connection
BrowserCloses ==
    /\ wt_sock = "open"
    /\ wt_sock' = "closed"
    /\ UNCHANGED <<wt_handler, wt_recv, wt_input, wt_send, wt_inq, wt_out,
                   wt_pty, wt_made, wt_relayed>>
    /\ UNCHANGED notTask

\* the connection breaks: sends fail from now on and so does the stream
ConnectionBreaks ==
    /\ wt_sock = "open"
    /\ wt_sock' = "broken"
    /\ UNCHANGED <<wt_handler, wt_recv, wt_input, wt_send, wt_inq, wt_out,
                   wt_pty, wt_made, wt_relayed>>
    /\ UNCHANGED notTask

\* spawn_recv_task: a frame arrives that gives a message for the input
\* task (other frames change nothing, and so does a send to a channel
\* whose receiver is gone: it fails and is ignored)
RecvFrame ==
    /\ wt_recv = "running"
    /\ wt_sock = "open"
    /\ wt_input = "running"
    /\ wt_inq < MaxFrames
    /\ wt_inq' = wt_inq + 1
    /\ UNCHANGED <<wt_sock, wt_handler, wt_recv, wt_input, wt_send, wt_out,
                   wt_pty, wt_made, wt_relayed>>
    /\ UNCHANGED notTask

\* spawn_recv_task: Message::Close, an error or the end of the stream ends
\* the loop; input_tx goes with the task
RecvEnds ==
    /\ wt_recv = "running"
    /\ wt_sock \in {"closed", "broken"}
    /\ wt_recv' = "done"
    /\ UNCHANGED <<wt_sock, wt_handler, wt_input, wt_send, wt_inq, wt_out,
                   wt_pty, wt_made, wt_relayed>>
    /\ UNCHANGED notTask

\* spawn_input_task: one message is taken and handled
InputTakes ==
    /\ wt_input = "running"
    /\ wt_inq > 0
    /\ wt_inq' = wt_inq - 1
    /\ UNCHANGED <<wt_sock, wt_handler, wt_recv, wt_input, wt_send, wt_out,
                   wt_pty, wt_made, wt_relayed>>
    /\ UNCHANGED notTask

\* spawn_input_task: recv() returns None, the channel is empty and its
\* only sender is gone
InputEnds ==
    /\ wt_input = "running"
    /\ wt_inq = 0
    /\ wt_recv = "done"
    /\ wt_input' = "done"
    /\ UNCHANGED <<wt_sock, wt_handler, wt_recv, wt_send, wt_inq, wt_out,
                   wt_pty, wt_made, wt_relayed>>
    /\ UNCHANGED notTask

\* the reader thread of the PTY broadcasts a chunk; it reaches the relay
\* task's receiver while that task lives
PtyProduces ==
    /\ wt_handler # "none"
    /\ wt_pty = "live"
    /\ wt_made < MaxChunks
    /\ wt_made' = wt_made + 1
    /\ wt_out' = IF wt_send = "running" THEN wt_out + 1 ELSE wt_out
    /\ UNCHANGED <<wt_sock, wt_handler, wt_recv, wt_input, wt_send, wt_inq,
                   wt_pty, wt_relayed>>
    /\ UNCHANGED notTask

\* the PTY handle and its reader thread are gone: the broadcast channel
\* closes
PtyCloses ==
    /\ wt_handler # "none"
    /\ wt_pty = "live"
    /\ wt_pty' = "closed"
    /\ UNCHANGED <<wt_sock, wt_handler, wt_recv, wt_input, wt_send, wt_inq,
                   wt_out, wt_made, wt_relayed>>
    /\ UNCHANGED notTask

\* spawn_send_task: recv() gave a chunk; it is sent to the browser, and
\* the loop breaks when the send fails
SendRelays ==
    /\ wt_send = "running"
    /\ wt_out > 0
    /\ wt_out' = wt_out - 1
    /\ IF wt_sock = "open"
       THEN wt_relayed' = wt_relayed + 1 /\ UNCHANGED wt_send
       ELSE wt_send' = "done" /\ UNCHANGED wt_relayed
    /\ UNCHANGED <<wt_sock, wt_handler, wt_recv, wt_input, wt_inq, wt_pty,
                   wt_made>>
    /\ UNCHANGED notTask

\* spawn_send_task: recv() gave Err(Closed)
SendEnds ==
    /\ wt_send = "running"
    /\ wt_out = 0
    /\ wt_pty = "closed"
    /\ wt_send' = "done"
    /\ UNCHANGED <<wt_sock, wt_handler, wt_recv, wt_input, wt_inq, wt_out,
                   wt_pty, wt_made, wt_relayed>>
    /\ UNCHANGED notTask

InitTask ==
    /\ wt_sock = "none"
    /\ wt_handler = "none"
    /\ wt_recv = "none"
    /\ wt_input = "none"
    /\ wt_send = "none"
    /\ wt_inq = 0
    /\ wt_out = 0
    /\ wt_pty = "live"
    /\ wt_made = 0
    /\ wt_relayed = 0

NextTask ==
    \/ HandleSocket
    \/ SelectReturns
    \/ BrowserCloses
    \/ ConnectionBreaks
    \/ RecvFrame
    \/ RecvEnds
    \/ InputTakes
    \/ InputEnds
    \/ PtyProduces
    \/ PtyCloses
    \/ SendRelays
    \/ SendEnds

(***************************************************************************)
(* Claims about the tasks of a WebSocket connection                        *)
(***************************************************************************)
\* C37: when the browser closes the connection both directions end: the output-relay task and the input task
\* eventually terminate, also when the PTY produces no further output, and
\* no chunk is relayed after the close or after the connection broke.
C37_BothDirectionsEnd ==
    /\ (wt_sock = "closed") ~>
            (wt_send = "done" /\ wt_input = "done" /\ wt_recv = "done")
    /\ [][(wt_sock \in {"closed", "broken"}) => (wt_relayed' = wt_relayed)]_vars

(***************************************************************************)
(* Specifications                                                          *)
(***************************************************************************)
Init ==
    /\ InitReader
    /\ InitWriter
    /\ InitAdapter
    /\ InitSession
    /\ InitLog
    /\ InitPath
    /\ InitWs
    /\ InitFan
    /\ InitHttp
    /\ InitJson
    /\ InitHist
    /\ InitMgr
    /\ InitTask

SpecReader == Init /\ [][NextReader]_vars

SpecWriter == Init /\ [][NextWriter]_vars

\* the tasks inside shutdown() run, a send waiting for room in the channel
\* gets it when room keeps appearing, and the writer thread takes commands;
\* how fast write_all proceeds is up to the child reading its input, but
\* once the child is gone write_all fails at once
FairWriter ==
    /\ \A c \in Callers : SF_vars(ShutdownSend(c))
    /\ \A c \in Callers : WF_vars(ShutdownKill(c))
    /\ \A c \in Callers : WF_vars(ShutdownPoll(c))
    /\ WF_vars(WriterRecv)
    /\ WF_vars(pty_broken /\ WriterWriteByte)

SpecWriterFair == Init /\ [][NextWriter]_vars /\ FairWriter

SpecAdapter == Init /\ [][NextAdapter]_vars

\* the spawned tasks and the handler are scheduled; when the PTY writes
\* and when its channel closes is not up to them
FairTask ==
    /\ WF_vars(SelectReturns)
    /\ WF_vars(RecvEnds)
    /\ WF_vars(InputTakes)
    /\ WF_vars(InputEnds)
    /\ WF_vars(SendRelays)
    /\ WF_vars(SendEnds)

SpecTaskFair == Init /\ [][NextTask]_vars /\ FairTask

SpecSession == Init /\ [][NextSession]_vars

SpecLog == Init /\ [][NextLog]_vars

SpecPath == Init /\ [][NextPath]_vars

SpecWs == Init /\ [][NextWs]_vars

\* the dispatcher's poll loop and its timers run
FairSession ==
    /\ WF_vars(PollTick)
    /\ WF_vars(Complete)
    /\ WF_vars(StuckDetect)
    /\ WF_vars(StuckRecover)
    /\ WF_vars(Dispatch)

SpecSessionFair == Init /\ [][NextSession]_vars /\ FairSession

\* the timers of a send call run (queue_wait, the deadline), and a poll that
\* can match a completion does
FairTimers ==
    /\ \A r \in Reqs : WF_vars(QueueTimeout(r))
    /\ WF_vars(DeadlineTimeout)
    /\ WF_vars(Complete)

SpecSessionTimers == Init /\ [][NextSession]_vars /\ FairTimers

SpecFan == Init /\ [][NextFan]_vars

SpecFanFair == Init /\ [][NextFan]_vars /\ FairFan

SpecHttp == Init /\ [][NextHttp]_vars

SpecJson == Init /\ [][NextJson]_vars

SpecHist == Init /\ [][NextHist]_vars

SpecMgr == Init /\ [][NextMgr]_vars

SpecTask == Init /\ [][NextTask]_vars

Next ==
    \/ NextReader
    \/ NextWriter
    \/ NextAdapter
    \/ NextSession
    \/ NextLog
    \/ NextPath
    \/ NextWs
    \/ NextFan
    \/ NextHttp
    \/ NextJson
    \/ NextHist
    \/ NextMgr
    \/ NextTask

Spec == Init /\ [][Next]_vars

=============================================================================
